---- MODULE Spec2Model ----
(***************************************************************************)
(* State-machine model of the page-editing core of pdf_editor.py           *)
(* (class PDFSplitterApp): the edit session (page_order, deleted_pages,    *)
(* page_rotations and their snapshots), the materialisation of edits       *)
(* (apply_edit_changes_to_pdf), the per-path modification record           *)
(* (pdf_modifications), loading, folder navigation, merging and saving.    *)
(*                                                                         *)
(* A document is a sequence of pages; a page is a record                   *)
(*   [src |-> source file, idx |-> 0-based index in it, rot |-> /Rotate].  *)
(* A path is a pair <<kind, n>>.  A document handle (fitz.Document) is a   *)
(* record [st |-> "none" | "open" | "closed", pages |-> document].         *)
(***************************************************************************)
EXTENDS Integers, Sequences, FiniteSets, TLC

\* ---------------------------------------------------------------- bounds
\* Spec: how many edit handlers, applies, merges and loads one run makes
MaxEdits == 2
MaxApply == 2
MaxMerge == 1
MaxLoad  == 2
\* SpecSession: the same, for runs that explore one session in depth
SessionMaxEdits == 2
SessionMaxApply == 1
SessionMaxMerge == 1
SessionMaxLoad  == 1
\* SpecCrop: how many loads one run makes and how many crops it stores
CropMaxLoad == 1
MaxCrops == 1
\* SpecParse: the longest text made of ParseChars
MaxTextLen == 3
\* SpecThumbs: how many loads and edit handlers one run makes, and how many
\* background threads are alive at once
ThumbMaxLoad == 2
ThumbMaxEdits == 1
MaxPasses == 2
\* SpecApply: how many edit handlers, applies and loads one run makes
ApplyMaxEdits == 2
ApplyMaxApply == 2
ApplyMaxLoad == 1
\* SpecMerge: how many merges, loads, edit handlers and applies one run makes,
\* and how many seconds go by
MergeMaxMerge == 2
MergeMaxLoad == 1
MergeMaxEdits == 1
MergeMaxApply == 1
MaxClock == 1
\* SpecSave: how many loads, merges, edit handlers and applies one run makes
SaveMaxLoad == 1
SaveMaxMerge == 1
SaveMaxEdits == 1
SaveMaxApply == 1
\* SpecModes: how many loads, merges, edit handlers and applies one run makes
ModesMaxLoad == 1
ModesMaxMerge == 1
ModesMaxEdits == 1
ModesMaxApply == 1
\* SpecLoad: how many loads, merges, edit handlers and applies one run makes
LoadMaxLoad == 2
LoadMaxMerge == 1
LoadMaxEdits == 1
LoadMaxApply == 1
\* SpecRotate: how many loads, rotate buttons and applies one run makes
RotateMaxLoad == 1
RotateMaxEdits == 4
RotateMaxApply == 1

\* ------------------------------------------------- generic list/dict helpers
EmptyDict == [x \in {} |-> 0]

\* an assignment that overwrites every entry of the dictionary: the frame
\* property of the modification record must tell it from DictSet
DictSetAll(d, k, v) == [x \in DOMAIN d \cup {k} |-> v]

\* d[k] = v
DictSet(d, k, v) == [x \in (DOMAIN d) \cup {k} |-> IF x = k THEN v ELSE d[x]]

\* d.pop(k)
DictPop(d, k) == [x \in (DOMAIN d) \ {k} |-> d[x]]

\* a lookup that never finds the key: the rotation frame property must tell
\* it from DictGet
DictGetDefault(d, k, default) == default

\* d.get(k, default)
DictGet(d, k, default) == IF k \in DOMAIN d THEN d[k] ELSE default

\* the numbers 1..n: the session of a newly opened document must tell it from
\* ListRange
ListRangeFromOne(n) == [i \in 1..n |-> i]

\* list(range(n))
ListRange(n) == [i \in 1..n |-> i - 1]

\* a pop that leaves the list as it was: the page count must tell it from
\* ListPop
ListPopKeep(s, i) == s

\* a pop that always removes the last element: the delete property must tell
\* it from ListPop
ListPopLast(s, i) == SubSeq(s, 1, Len(s) - 1)

\* list.pop(i) for a 0-based index i that is in range
ListPop(s, i) == [k \in 1..(Len(s) - 1) |-> IF k <= i THEN s[k] ELSE s[k + 1]]

\* an insert that ignores the index and puts x first: the reorder frame
\* property must tell it from ListInsert
ListInsertFront(s, i, x) == <<x>> \o s

\* list.insert(i, x) for 0 <= i; an index past the end appends
ListInsert(s, i, x) ==
    LET j == IF i > Len(s) THEN Len(s) ELSE i
    IN  [k \in 1..(Len(s) + 1) |->
            IF k <= j THEN s[k] ELSE IF k = j + 1 THEN x ELSE s[k - 1]]

\* a filter that drops nothing: the disjointness of the order and the
\* deleted pages must tell it from ListWithout
ListKeep(s, drop) == s

\* [p for p in s if p not in drop]
RECURSIVE ListWithout(_, _)
ListWithout(s, drop) ==
    IF s = <<>> THEN <<>>
    ELSE IF Head(s) \in drop THEN ListWithout(Tail(s), drop)
         ELSE <<Head(s)>> \o ListWithout(Tail(s), drop)

\* the elements listed from the largest down: the parser's results must tell
\* it from SortedList
RECURSIVE DescendingList(_)
DescendingList(S) ==
    IF S = {} THEN <<>>
    ELSE LET m == CHOOSE x \in S : \A y \in S : x >= y
         IN  <<m>> \o DescendingList(S \ {m})

\* sorted(list(pages)) for a finite set of integers
RECURSIVE SortedList(_)
SortedList(S) ==
    IF S = {} THEN <<>>
    ELSE LET m == CHOOSE x \in S : \A y \in S : x <= y
         IN  <<m>> \o SortedList(S \ {m})

\* ---------------------------------------------------- files and documents
PathA == <<"src", 1>>
PathB == <<"src", 2>>
NoPath == <<"none", 0>>

SourceDoc(p, n) == [i \in 1..n |-> [src |-> p, idx |-> i - 1, rot |-> 0]]

\* the user's files: A has three pages, B has two
SourceFiles == (PathA :> SourceDoc(PathA, 3)) @@ (PathB :> SourceDoc(PathB, 2))

\* a PDF file without pages
PathE == <<"src", 3>>

\* the user's files and the empty one
FilesWithEmpty == SourceFiles @@ (PathE :> <<>>)

\* the folder offered to "Open Folder": its PDF files, sorted
FolderList == <<PathA, PathB>>

NoDoc == [st |-> "none", pages |-> <<>>]

OpenDoc(pages) == [st |-> "open", pages |-> pages]

\* len(doc) > 0, the truth value of a fitz.Document
DocTruthy(doc) == doc.st = "open" /\ Len(doc.pages) > 0

\* PyPDF2 page.rotate(angle): the angle is added to the page's /Rotate
RotatePage(page, angle) == [page EXCEPT !.rot = (page.rot + angle) % 360]

\* ------------------------------------------------------- parse_page_ranges
\* A text is a sequence of one-character strings.
DigitChars == <<"0", "1", "2", "3", "4", "5", "6", "7", "8", "9">>

IsDigit(c) == \E i \in 1..10 : DigitChars[i] = c

DigitVal(c) == (CHOOSE i \in 1..10 : DigitChars[i] = c) - 1

\* str.strip()
RECURSIVE LStrip(_)
LStrip(s) == IF s # <<>> /\ Head(s) = " " THEN LStrip(Tail(s)) ELSE s

RECURSIVE RStrip(_)
RStrip(s) ==
    IF s # <<>> /\ s[Len(s)] = " " THEN RStrip(SubSeq(s, 1, Len(s) - 1)) ELSE s

Strip(s) == RStrip(LStrip(s))

\* str.split(sep): the parts between the separators, empty parts included
RECURSIVE SplitAcc(_, _, _)
SplitAcc(s, sep, cur) ==
    IF s = <<>> THEN <<cur>>
    ELSE IF Head(s) = sep THEN <<cur>> \o SplitAcc(Tail(s), sep, <<>>)
         ELSE SplitAcc(Tail(s), sep, Append(cur, Head(s)))

Split(s, sep) == SplitAcc(s, sep, <<>>)

\* str.split(sep, 1): cut at the first separator (which is present)
SplitOnce(s, sep) ==
    LET i == CHOOSE k \in 1..Len(s) : s[k] = sep /\ \A j \in 1..(k - 1) : s[j] # sep
    IN  <<SubSeq(s, 1, i - 1), SubSeq(s, i + 1, Len(s))>>

RECURSIVE DigitsValue(_)
DigitsValue(s) ==
    IF s = <<>> THEN 0 ELSE 10 * DigitsValue(SubSeq(s, 1, Len(s) - 1)) + DigitVal(s[Len(s)])

\* int(str): surrounding blanks and one sign are accepted; anything else is
\* "invalid literal for int()"
PyInt(str) ==
    LET t == Strip(str)
        signed == t # <<>> /\ Head(t) \in {"-", "+"}
        body == IF signed THEN Tail(t) ELSE t
        good == body # <<>> /\ \A i \in 1..Len(body) : IsDigit(body[i])
    IN  IF ~good THEN [ok |-> FALSE, val |-> 0]
        ELSE [ok |-> TRUE,
              val |-> IF signed /\ Head(t) = "-" THEN 0 - DigitsValue(body)
                      ELSE DigitsValue(body)]

\* a test that never sees a leading dash: the rejection of bad open ranges
\* must tell it from StartsWithDash
NeverStartsWithDash(part) == FALSE

\* part.startswith('-')
StartsWithDash(part) == part # <<>> /\ Head(part) = "-"

\* part.endswith('-')
EndsWithDash(part) == part # <<>> /\ part[Len(part)] = "-"

\* '-' in part
HasDash(part) == \E i \in 1..Len(part) : part[i] = "-"

\* what an error message names when it names nothing of the input
NoToken == <<"<none>">>

\* one pass of the loop body of parse_page_ranges over a stripped part:
\* the positions it adds, or the ValueError it raises: err is the kind of the
\* message and names is the piece of the input the message quotes (for int()
\* the literal it was given, for the checks of the code the part)
ParsePart(part, current_page_count) ==
    IF StartsWithDash(part) /\ Len(part) > 1 THEN
        LET lit == Strip(Tail(part))
            n == PyInt(lit)
        IN  IF ~n.ok THEN [err |-> "format", add |-> {}, names |-> lit]
            ELSE IF n.val < 1 THEN [err |-> "positive", add |-> {}, names |-> part]
            ELSE IF n.val > current_page_count
                 THEN [err |-> "exceeds", add |-> {}, names |-> lit]
            ELSE [err |-> "", add |-> 1..n.val, names |-> NoToken]
    ELSE IF EndsWithDash(part) /\ Len(part) > 1 THEN
        LET lit == Strip(SubSeq(part, 1, Len(part) - 1))
            n == PyInt(lit)
        IN  IF ~n.ok THEN [err |-> "format", add |-> {}, names |-> lit]
            ELSE IF n.val < 1 THEN [err |-> "positive", add |-> {}, names |-> part]
            ELSE IF n.val > current_page_count
                 THEN [err |-> "exceeds", add |-> {}, names |-> lit]
            ELSE [err |-> "", add |-> n.val..current_page_count, names |-> NoToken]
    ELSE IF HasDash(part) /\ ~StartsWithDash(part) /\ ~EndsWithDash(part) THEN
        LET halves == SplitOnce(part, "-")
            a == PyInt(Strip(halves[1]))
            b == PyInt(Strip(halves[2]))
        IN  IF ~a.ok THEN [err |-> "format", add |-> {}, names |-> Strip(halves[1])]
            ELSE IF ~b.ok
                 THEN [err |-> "format", add |-> {}, names |-> Strip(halves[2])]
            ELSE IF a.val > b.val
                 THEN [err |-> "", add |-> b.val..a.val, names |-> NoToken]
            ELSE [err |-> "", add |-> a.val..b.val, names |-> NoToken]
    ELSE IF part = <<"-">> THEN [err |-> "standalone", add |-> {}, names |-> part]
    ELSE
        LET n == PyInt(Strip(part))
        IN  IF ~n.ok THEN [err |-> "format", add |-> {}, names |-> Strip(part)]
            ELSE [err |-> "", add |-> {n.val}, names |-> NoToken]

RECURSIVE ParseParts(_, _, _)
ParseParts(parts, current_page_count, pages) ==
    IF parts = <<>>
    THEN [err |-> "", pages |-> SortedList(pages), names |-> NoToken]
    ELSE LET r == ParsePart(Strip(Head(parts)), current_page_count)
         IN  IF r.err # "" THEN [err |-> r.err, pages |-> <<>>, names |-> r.names]
             ELSE ParseParts(Tail(parts), current_page_count, pages \cup r.add)

\* the except clause of parse_page_ranges: a ValueError of int() ("invalid
\* literal for int()") is replaced by one with a fixed text, which quotes
\* nothing of the input; any other ValueError is raised again as it is
ReraiseValueError(raised) ==
    IF raised.err = "format" THEN [raised EXCEPT !.names = NoToken] ELSE raised

\* parse_page_ranges(range_string) in a session whose visible pages number
\* current_page_count: the sorted list of positions, or the error raised
parse_page_ranges(range_string, current_page_count) ==
    IF Strip(range_string) = <<>>
    THEN [err |-> "", pages |-> <<>>, names |-> NoToken]
    ELSE ReraiseValueError(ParseParts(Split(range_string, ","), current_page_count, {}))

\* ------------------------------------------------------------------ state
VARIABLES
    files,              \* the file system: path -> document
    tmp_count,          \* how many names tempfile.mktemp has handed out
    clock,              \* int(time.time())
    pdf_document,       \* the live document handle
    pdf_path,
    pdf_list,
    current_pdf_index,
    pdf_documents,      \* cache of opened documents: path -> handle
    page_order,
    deleted_pages,
    original_order,
    original_rotations,
    page_rotations,     \* 1-based page number -> angle
    has_edited,
    aliased,            \* whether the order and its snapshot, and the rotations and
                        \* their snapshot, are one object

    edit_mode,
    edit_mode_var,
    is_merged_pdf,
    merged_temp_path,
    pdf_modifications,  \* path -> [temp_path, original_path]
    lastOp,             \* the handler that ran last, its inputs and outcome
                        \* (for a Save command, the document it wrote)
    edits_left,         \* what is left of the run's budget of edit handlers,
    applies_left,       \* applies,
    merges_left,        \* merges
    loads_left,         \* and loads
    crop_mode,
    crop_mode_var,
    current_crop,       \* the crop being drawn, or NoCrop
    crop_rectangles,    \* 1-based page number -> list of stored crops
    crop_counter,
    parse_text,         \* a call of parse_page_ranges on its own: the text,
    parse_count,        \* the number of visible pages
    parse_result,       \* and what the call gave
    thumbnail_size,     \* the zoom: the pixel size thumbnails are rendered at
    page_thumbnails,    \* 0-based page index -> photo, or NoPhoto
    page_widgets,       \* the page controls on display, in display order
    passes,             \* the background threads that are running
    display_calls       \* display_thumbnails callbacks queued with root.after

vars == <<files, tmp_count, clock, pdf_document, pdf_path, pdf_list,
          current_pdf_index, pdf_documents, page_order, deleted_pages,
          original_order, original_rotations, page_rotations, has_edited,
          aliased,
          edit_mode, edit_mode_var, is_merged_pdf, merged_temp_path,
          pdf_modifications, lastOp, edits_left, applies_left, merges_left,
          loads_left, crop_mode, crop_mode_var, current_crop, crop_rectangles,
          crop_counter, parse_text, parse_count, parse_result, thumbnail_size,
          page_thumbnails, page_widgets, passes, display_calls>>

fsVars == <<files, tmp_count>>

docVars == <<pdf_document, pdf_path, pdf_list, current_pdf_index, pdf_documents>>

sessionVars == <<page_order, deleted_pages, original_order, original_rotations,
                 page_rotations, has_edited, aliased>>

modeVars == <<edit_mode, edit_mode_var>>

mergeVars == <<is_merged_pdf, merged_temp_path>>

countVars == <<edits_left, applies_left, merges_left, loads_left>>

cropVars == <<crop_mode, crop_mode_var, current_crop, crop_rectangles, crop_counter>>

parseVars == <<parse_text, parse_count, parse_result>>

thumbVars == <<thumbnail_size, page_thumbnails, page_widgets, passes, display_calls>>

\* everything but the thumbnails and the page controls
baseVars == <<fsVars, clock, docVars, sessionVars, modeVars, mergeVars,
              pdf_modifications, lastOp, countVars, cropVars, parseVars>>

\* self.current_crop = None
NoCrop == [page |-> 0, start_x |-> 0, start_y |-> 0]

\* no call of parse_page_ranges has been made
NotParsed == [err |-> "not called", pages |-> <<>>, names |-> NoToken]

\* the page count of A and B concatenated
MaxPages == Len(SourceFiles[PathA]) + Len(SourceFiles[PathB])

\* display positions a page control can carry (0-based)
Positions == 0..(MaxPages - 1)

\* PDFSplitterApp.__init__
AppInitOn(user_files) ==
    /\ files = user_files
    /\ tmp_count = 0
    /\ clock = 0
    /\ pdf_document = NoDoc
    /\ pdf_path = NoPath
    /\ pdf_list = <<>>
    /\ current_pdf_index = 0
    /\ pdf_documents = EmptyDict
    /\ page_order = <<>>
    /\ deleted_pages = {}
    /\ original_order = <<>>
    /\ original_rotations = EmptyDict
    /\ page_rotations = EmptyDict
    /\ has_edited = FALSE
    /\ aliased = [order |-> FALSE, rotations |-> FALSE]
    /\ edit_mode = FALSE
    /\ edit_mode_var = FALSE
    /\ is_merged_pdf = FALSE
    /\ merged_temp_path = NoPath
    /\ pdf_modifications = EmptyDict
    /\ lastOp = [op |-> "init", res |-> "ok"]
    /\ crop_mode = FALSE
    /\ crop_mode_var = FALSE
    /\ current_crop = NoCrop
    /\ crop_rectangles = EmptyDict
    /\ crop_counter = 0
    /\ thumbnail_size = 150
    /\ page_thumbnails = <<>>
    /\ page_widgets = <<>>
    /\ passes = <<>>
    /\ display_calls = 0

\* the state after construction, the user's files on disk
AppInit == AppInitOn(SourceFiles)

Init ==
    /\ AppInit
    /\ edits_left = MaxEdits
    /\ applies_left = MaxApply
    /\ merges_left = MaxMerge
    /\ loads_left = MaxLoad
    /\ parse_text = <<>>
    /\ parse_count = 0
    /\ parse_result = NotParsed

\* obj.copy(): a new object with the content of obj
Copy(obj) == [value |-> obj, same |-> FALSE]

\* the snapshot after the live list or dict was changed in place (pop,
\* insert, clear, item assignment) to live: the same change when snapshot and
\* live object are one object
InPlace(same, live, snapshot) == IF same THEN live ELSE snapshot

\* a test for changes that is always true: an apply in a session without
\* changes must tell it from HasChanges
AlwaysHasChanges == TRUE



\* the test the program makes before reset, apply and save
HasChanges == has_edited \/ deleted_pages # {} \/ page_rotations # EmptyDict

\* --------------------------------------------------------- edit operations
\* delete_page(page_index): the delete button of the control at a display
\* position, the confirmation dialog answered yes
DeletePage(page_index) ==
    /\ edit_mode
    /\ edits_left > 0
    /\ edits_left' = edits_left - 1
    /\ IF page_index >= Len(page_order)
       THEN \* page_order[page_index] raises IndexError
            /\ lastOp' = [op |-> "delete_page", res |-> "IndexError", pos |-> page_index]
            /\ UNCHANGED sessionVars
       ELSE LET actual_page_index == page_order[page_index + 1]
            IN  /\ deleted_pages' = deleted_pages \cup {actual_page_index}
                /\ page_order' = ListPop(page_order, page_index)
                /\ has_edited' = TRUE
                /\ lastOp' = [op |-> "delete_page", res |-> "ok", pos |-> page_index,
                              id |-> actual_page_index]
                /\ original_order' = InPlace(aliased.order, page_order', original_order)
                /\ UNCHANGED <<original_rotations, page_rotations, aliased>>
    /\ UNCHANGED <<cropVars, parseVars>>
    /\ UNCHANGED <<fsVars, clock, docVars, modeVars, mergeVars, pdf_modifications,
                   applies_left, merges_left, loads_left>>

\* positions resolved against the snapshot instead of the order on display:
\* the batch property must tell it from CurrentVisiblePages
SnapshotVisiblePages == original_order

\* [idx for idx in self.page_order if idx not in self.deleted_pages]
CurrentVisiblePages == ListWithout(page_order, deleted_pages)

\* the validation that lets every position through: the all-or-nothing
\* property must tell it from InvalidPositions
NoInvalidPositions(positions_to_delete, current_page_count) == {}

\* [p for p in positions_to_delete if p < 1 or p > current_page_count]
InvalidPositions(positions_to_delete, current_page_count) ==
    {positions_to_delete[i] : i \in 1..Len(positions_to_delete)}
        \ (1..current_page_count)

\* bulk_delete_pages() with range_text in the entry field, the confirmation
\* dialog answered yes
BulkDeletePages(range_text) ==
    /\ edit_mode
    /\ edits_left > 0
    /\ edits_left' = edits_left - 1
    /\ \E parsed \in {parse_page_ranges(range_text, Len(CurrentVisiblePages))} :
         LET positions_to_delete == parsed.pages
             current_visible_pages == CurrentVisiblePages
             current_page_count == Len(current_visible_pages)
             invalid_positions ==
                 InvalidPositions(positions_to_delete, current_page_count)
             \* the conversion loop: a position past the end is skipped, and
             \* current_visible_pages[-1] is the last page
             convertible ==
                 {positions_to_delete[i] : i \in 1..Len(positions_to_delete)}
                     \cap (IF current_page_count = 0 THEN {}
                           ELSE 0..current_page_count)
             actual_page_indices_to_delete ==
                 {current_visible_pages[IF position = 0 THEN current_page_count
                                        ELSE position] : position \in convertible}
             res == IF ~DocTruthy(pdf_document) THEN "no document"
                    ELSE IF Strip(range_text) = <<>> THEN "empty"
                    ELSE IF parsed.err # "" THEN parsed.err
                    ELSE IF positions_to_delete = <<>> THEN "no positions"
                    ELSE IF invalid_positions # {} THEN "invalid positions"
                    ELSE IF actual_page_indices_to_delete = {} THEN "no pages"
                    ELSE "ok"
         IN  /\ lastOp' = [op |-> "bulk_delete_pages", res |-> res,
                           text |-> range_text]
             /\ IF res = "ok"
                THEN /\ deleted_pages' =
                            deleted_pages \cup actual_page_indices_to_delete
                     /\ page_order' =
                            ListWithout(page_order, actual_page_indices_to_delete)
                     /\ has_edited' = TRUE
                     \* self.page_order is bound to a new list
                     /\ aliased' = [aliased EXCEPT !.order = FALSE]
                     /\ UNCHANGED <<original_order, original_rotations,
                                    page_rotations>>
                ELSE UNCHANGED sessionVars
    /\ UNCHANGED <<cropVars, parseVars>>
    /\ UNCHANGED <<fsVars, clock, docVars, modeVars, mergeVars, pdf_modifications,
                   applies_left, merges_left, loads_left>>

\* a reorder without the early return for equal indices: the page is popped
\* and put back and the session is marked as edited; the no-op property must
\* tell it from reorder_pages
reorder_pages_no_same_check(source_index, target_index) ==
    IF source_index >= Len(page_order)
    THEN [order |-> page_order, edited |-> has_edited, res |-> "IndexError"]
    ELSE [order |-> ListInsert(ListPop(page_order, source_index),
                               IF target_index > source_index
                               THEN target_index - 1 ELSE target_index,
                               page_order[source_index + 1]),
          edited |-> TRUE, res |-> "ok"]

\* a reorder that inserts at the target index as given, without the
\* adjustment for the popped element: the reorder property must tell it from
\* reorder_pages
reorder_pages_no_adjust(source_index, target_index) ==
    IF source_index = target_index
    THEN [order |-> page_order, edited |-> has_edited, res |-> "same"]
    ELSE IF source_index >= Len(page_order)
    THEN [order |-> page_order, edited |-> has_edited, res |-> "IndexError"]
    ELSE [order |-> ListInsert(ListPop(page_order, source_index), target_index,
                               page_order[source_index + 1]),
          edited |-> TRUE, res |-> "ok"]

\* a reorder that moves the page but leaves the edited flag as it was: the
\* dirty state after a reorder must tell it from reorder_pages
reorder_pages_not_marking(source_index, target_index) ==
    IF source_index = target_index
    THEN [order |-> page_order, edited |-> has_edited, res |-> "same"]
    ELSE IF source_index >= Len(page_order)
    THEN [order |-> page_order, edited |-> has_edited, res |-> "IndexError"]
    ELSE [order |-> ListInsert(ListPop(page_order, source_index),
                               IF target_index > source_index
                               THEN target_index - 1 ELSE target_index,
                               page_order[source_index + 1]),
          edited |-> has_edited, res |-> "ok"]

\* reorder_pages(source_index, target_index): the new page_order and
\* has_edited, and how the call ended
reorder_pages(source_index, target_index) ==
    IF source_index = target_index
    THEN [order |-> page_order, edited |-> has_edited, res |-> "same"]
    ELSE IF source_index >= Len(page_order)
    THEN \* page_order[source_index] raises IndexError, which is reported
         [order |-> page_order, edited |-> has_edited, res |-> "IndexError"]
    ELSE LET page_num == page_order[source_index + 1]
             popped == ListPop(page_order, source_index)
             target == IF target_index > source_index
                       THEN target_index - 1 ELSE target_index
         IN  [order |-> ListInsert(popped, target, page_num), edited |-> TRUE,
              res |-> "ok"]

\* a direct call reorder_pages(source_index, target_index), with any indices
ReorderPagesCall(source_index, target_index) ==
    /\ edits_left > 0
    /\ edits_left' = edits_left - 1
    /\ LET r == reorder_pages(source_index, target_index)
       IN  /\ page_order' = r.order
           /\ has_edited' = r.edited
           /\ lastOp' = [op |-> "reorder_pages", res |-> r.res,
                         src |-> source_index, tgt |-> target_index]
    /\ original_order' = InPlace(aliased.order, page_order', original_order)
    /\ UNCHANGED <<deleted_pages, original_rotations, page_rotations, aliased>>
    /\ UNCHANGED <<cropVars, parseVars>>
    /\ UNCHANGED <<fsVars, clock, docVars, modeVars, mergeVars, pdf_modifications,
                   applies_left, merges_left, loads_left>>

\* end_drag: a drag started on the control at source_index (start_drag has
\* read page_order[source_index]) is released over the control at
\* target_index, the index find_drop_target gives it in the list of controls.
\* Before it looks for the target, end_drag calls clear_drop_highlights,
\* which reads page_order[i] for every control i but the source: with a
\* control past the end of page_order that raises, end_drag swallows the
\* error and reorder_pages is not called. A reorder made by a drag therefore
\* has its target inside page_order.
EndDrag(source_index, target_index) ==
    /\ edit_mode
    /\ edits_left > 0
    /\ source_index < Len(page_order)
    /\ target_index < Len(page_order)
    /\ LET r == IF target_index # source_index
                THEN reorder_pages(source_index, target_index)
                ELSE [order |-> page_order, edited |-> has_edited, res |-> "click"]
       IN  /\ page_order' = r.order
           /\ has_edited' = r.edited
           /\ edits_left' = edits_left - 1
           /\ lastOp' = [op |-> "reorder_pages", res |-> r.res,
                         src |-> source_index, tgt |-> target_index]
    /\ original_order' = InPlace(aliased.order, page_order', original_order)
    /\ UNCHANGED <<deleted_pages, original_rotations, page_rotations, aliased>>
    /\ UNCHANGED <<cropVars, parseVars>>
    /\ UNCHANGED <<fsVars, clock, docVars, modeVars, mergeVars, pdf_modifications,
                   applies_left, merges_left, loads_left>>

\* a sum that is not reduced modulo 360: the set of stored angles must tell it
\* from NewRotation
NewRotationNoWrap(current_rotation, angle) == current_rotation + angle

\* (current_rotation + angle) % 360
NewRotation(current_rotation, angle) == (current_rotation + angle) % 360

\* an angle of 0 stored instead of the entry removed: four quarter turns must
\* tell it from RotatedMap
RotatedMapKeepingZero(rotations, page_number, angle) ==
    DictSet(rotations, page_number,
            NewRotation(DictGet(rotations, page_number, 0), angle))

\* the dictionary rotate_page leaves in self.page_rotations: the entry is
\* removed when the new angle is 0 and set otherwise
RotatedMap(rotations, page_number, angle) ==
    LET current_rotation == DictGet(rotations, page_number, 0)
        new_rotation == NewRotation(current_rotation, angle)
    IN  IF new_rotation = 0
        THEN DictPop(rotations, page_number)
        ELSE DictSet(rotations, page_number, new_rotation)

\* rotate_page(page_number, angle): a rotate button of the control showing
\* the page with that 1-based number
RotatePageAction(page_number, angle) ==
    /\ edit_mode
    /\ edits_left > 0
    /\ pdf_document.st # "none"
    /\ page_rotations' = RotatedMap(page_rotations, page_number, angle)
    /\ lastOp' = [op |-> "rotate_page", res |-> "ok", page |-> page_number,
                  angle |-> angle]
    /\ edits_left' = edits_left - 1
    /\ original_rotations' =
           InPlace(aliased.rotations, page_rotations', original_rotations)
    /\ UNCHANGED <<page_order, deleted_pages, original_order, has_edited, aliased>>
    /\ UNCHANGED <<cropVars, parseVars>>
    /\ UNCHANGED <<fsVars, clock, docVars, modeVars, mergeVars, pdf_modifications,
                   applies_left, merges_left, loads_left>>

\* reset_edit_session(), the confirmation dialog answered yes
ResetEditSession ==
    /\ IF ~HasChanges
       THEN /\ lastOp' = [op |-> "reset_edit_session", res |-> "no edits"]
            /\ UNCHANGED sessionVars
       ELSE /\ page_order' = Copy(original_order).value
            /\ has_edited' = FALSE
            /\ deleted_pages' = {}
            /\ page_rotations' = Copy(original_rotations).value
            /\ aliased' = [order |-> Copy(original_order).same,
                           rotations |-> Copy(original_rotations).same]
            /\ lastOp' = [op |-> "reset_edit_session", res |-> "ok"]
            /\ UNCHANGED <<original_order, original_rotations>>
    /\ UNCHANGED <<cropVars, parseVars>>
    /\ UNCHANGED <<fsVars, clock, docVars, modeVars, mergeVars, pdf_modifications,
                   countVars>>

\* discard_edit_changes(): the new session variables
DiscardEditChanges ==
    /\ page_order' = Copy(original_order).value
    /\ has_edited' = FALSE
    /\ deleted_pages' = {}
    /\ page_rotations' = Copy(original_rotations).value
    /\ aliased' = [order |-> Copy(original_order).same,
                   rotations |-> Copy(original_rotations).same]
    /\ UNCHANGED <<original_order, original_rotations>>

\* clear_all_rotations(), the confirmation dialog answered yes
ClearAllRotations ==
    /\ page_rotations # EmptyDict
    /\ page_rotations' = EmptyDict
    /\ lastOp' = [op |-> "clear_all_rotations", res |-> "ok"]
    /\ original_rotations' =
           InPlace(aliased.rotations, page_rotations', original_rotations)
    /\ UNCHANGED <<page_order, deleted_pages, original_order, has_edited, aliased>>
    /\ UNCHANGED <<cropVars, parseVars>>
    /\ UNCHANGED <<fsVars, clock, docVars, modeVars, mergeVars, pdf_modifications,
                   countVars>>

\* ----------------------------------------------------- session construction
\* initialize_edit_session() once self.pdf_document is doc and
\* self.page_rotations is rotations
InitializeEditSession(doc, rotations) ==
    /\ page_rotations' = rotations
    /\ IF DocTruthy(doc)
       THEN /\ page_order' = ListRange(Len(doc.pages))
            /\ original_order' = Copy(ListRange(Len(doc.pages))).value
            /\ deleted_pages' = {}
            /\ original_rotations' = Copy(rotations).value
            /\ has_edited' = FALSE
            /\ aliased' = [order |-> Copy(ListRange(Len(doc.pages))).same,
                           rotations |-> Copy(rotations).same]
       ELSE UNCHANGED <<page_order, original_order, deleted_pages,
                        original_rotations, has_edited, aliased>>

\* get_actual_pdf_path(original_path)
get_actual_pdf_path(original_path) ==
    IF original_path \in DOMAIN pdf_modifications
    THEN pdf_modifications[original_path].temp_path
    ELSE original_path

\* --------------------------------------------------------------- apply
\* a lookup by the 0-based index itself: the output property must tell it
\* from ApplyRotationKey
ApplyRotationKeyZeroBased(page_index) == page_index

\* the rotation apply looks up for the page at a 0-based index
ApplyRotationKey(page_index) == page_index + 1

\* the loop of apply_edit_changes_to_pdf over page_order: the pages handed to
\* the writer, read from reader_pages
RECURSIVE ApplyBuild(_, _, _, _)
ApplyBuild(reader_pages, order, deleted, rotations) ==
    IF order = <<>> THEN <<>>
    ELSE LET page_index == Head(order)
             rest == ApplyBuild(reader_pages, Tail(order), deleted, rotations)
         IN  IF page_index \in deleted THEN rest
             ELSE LET page == reader_pages[page_index + 1]
                      page_number == ApplyRotationKey(page_index)
                  IN  <<IF page_number \in DOMAIN rotations
                        THEN RotatePage(page, rotations[page_number])
                        ELSE page>> \o rest

\* reader.pages[page_index] exists for every page the loop reads
BuildReadable(reader_pages, order, deleted) ==
    \A i \in 1..Len(order) :
        order[i] \in deleted \/ order[i] < Len(reader_pages)

\* what the environment lets a run of apply do
ApplyOutcomes == {"ok", "save failed", "write failed", "open failed"}

\* document.close() on the live handle; the cache entry of the live path is
\* the same object
CloseHandle(doc) == [doc EXCEPT !.st = "closed"]

\* apply_edit_changes_to_pdf(), where env says which step the backend fails
ApplyEditChangesToPdf(env) ==
    LET temp_path == <<"tmp", tmp_count + 1>>
        current_temp_path == <<"tmp", tmp_count + 2>>
        can_save == pdf_document.st = "open" /\ Len(pdf_document.pages) > 0
        reader_pages == pdf_document.pages
        can_build == BuildReadable(reader_pages, page_order, deleted_pages)
        new_pages == ApplyBuild(reader_pages, page_order, deleted_pages, page_rotations)
        new_document == OpenDoc(new_pages)
        current_pdf_path == pdf_path
        record == [temp_path |-> temp_path, original_path |-> current_pdf_path]
    IN  IF ~HasChanges
        THEN /\ lastOp' = [op |-> "apply_edit_changes_to_pdf", res |-> "no changes"]
             /\ UNCHANGED <<fsVars, pdf_document, pdf_documents, pdf_modifications,
                            sessionVars>>
        ELSE IF env = "save failed" \/ ~can_save
        THEN /\ tmp_count' = tmp_count + 2
             /\ lastOp' = [op |-> "apply_edit_changes_to_pdf", res |-> "save failed"]
             /\ UNCHANGED <<files, pdf_document, pdf_documents, pdf_modifications,
                            sessionVars>>
        ELSE IF env = "write failed" \/ ~can_build
        THEN /\ tmp_count' = tmp_count + 2
             /\ files' = (current_temp_path :> reader_pages) @@ files
             /\ lastOp' = [op |-> "apply_edit_changes_to_pdf", res |-> "write failed"]
             /\ UNCHANGED <<pdf_document, pdf_documents, pdf_modifications,
                            sessionVars>>
        ELSE IF env = "open failed"
        THEN /\ tmp_count' = tmp_count + 2
             /\ files' = (temp_path :> new_pages) @@ files
             /\ pdf_modifications' = DictSet(pdf_modifications, current_pdf_path, record)
             /\ pdf_document' = CloseHandle(pdf_document)
             /\ pdf_documents' =
                    IF current_pdf_path \in DOMAIN pdf_documents
                    THEN DictSet(pdf_documents, current_pdf_path,
                                 CloseHandle(pdf_documents[current_pdf_path]))
                    ELSE pdf_documents
             /\ lastOp' = [op |-> "apply_edit_changes_to_pdf", res |-> "open failed",
                           temp |-> temp_path]
             /\ UNCHANGED sessionVars
        ELSE /\ tmp_count' = tmp_count + 2
             /\ files' = (temp_path :> new_pages) @@ files
             /\ pdf_modifications' = DictSet(pdf_modifications, current_pdf_path, record)
             /\ pdf_document' = new_document
             /\ pdf_documents' = DictSet(pdf_documents, current_pdf_path, new_document)
             /\ InitializeEditSession(new_document, page_rotations)
             /\ lastOp' = [op |-> "apply_edit_changes_to_pdf", res |-> "ok",
                           temp |-> temp_path]

\* a direct call apply_edit_changes_to_pdf(), in any session; env says which
\* step the backend fails
ApplyCall(env) ==
    /\ applies_left > 0
    /\ applies_left' = applies_left - 1
    /\ ApplyEditChangesToPdf(env)
    /\ UNCHANGED <<cropVars, parseVars>>
    /\ UNCHANGED <<clock, pdf_path, pdf_list, current_pdf_index, modeVars, mergeVars,
                   edits_left, merges_left, loads_left>>

\* the answers to the "Exit Edit Mode" dialog
ExitChoices == {"cancel", "discard", "update"}

\* toggle_edit_mode shows the dialog: edit mode is being left with changes
ExitPrompted(click) ==
    edit_mode /\ ~(IF click THEN ~edit_mode_var ELSE edit_mode_var) /\ HasChanges

\* the answers that matter to a run of toggle_edit_mode
ChoicesAt(click) == IF ExitPrompted(click) THEN ExitChoices ELSE {"cancel"}

\* the backend outcomes that matter to a run of toggle_edit_mode
OutcomesAt(click, choice) ==
    IF ExitPrompted(click) /\ choice = "update" THEN ApplyOutcomes ELSE {"ok"}

\* the body of toggle_edit_mode() once edit_mode_var holds desired_mode, but
\* for what it does to crop mode
EditModeTo(desired_mode, choice, env) ==
    LET applying == HasChanges /\ edit_mode /\ ~desired_mode /\ choice = "update"
    IN  /\ applying => applies_left > 0
        /\ applies_left' = IF applying THEN applies_left - 1 ELSE applies_left
        /\ IF edit_mode /\ ~desired_mode /\ HasChanges
           THEN IF choice = "cancel"
                THEN /\ edit_mode_var' = TRUE
                     /\ UNCHANGED <<lastOp, edit_mode, fsVars, pdf_document, pdf_documents,
                                    pdf_modifications, sessionVars>>
                ELSE IF choice = "discard"
                THEN /\ DiscardEditChanges
                     /\ edit_mode' = desired_mode
                     /\ edit_mode_var' = desired_mode
                     /\ lastOp' = [op |-> "discard_edit_changes", res |-> "ok"]
                     /\ UNCHANGED <<fsVars, pdf_document, pdf_documents,
                                    pdf_modifications>>
                ELSE /\ ApplyEditChangesToPdf(env)
                     /\ edit_mode' = desired_mode
                     /\ edit_mode_var' = desired_mode
           ELSE /\ edit_mode' = desired_mode
                /\ edit_mode_var' = desired_mode
                /\ UNCHANGED <<lastOp, fsVars, pdf_document, pdf_documents,
                               pdf_modifications, sessionVars>>
        /\ UNCHANGED <<clock, pdf_path, pdf_list, current_pdf_index, mergeVars,
                       edits_left, merges_left, loads_left>>

\* toggle_edit_mode(): click says whether the checkbox was clicked (which flips
\* edit_mode_var first) or the menu entry or Ctrl+E was used (which does not);
\* entering edit mode switches crop mode off
ToggleEditMode(click, choice, env) ==
    LET desired_mode == IF click THEN ~edit_mode_var ELSE edit_mode_var
    IN  /\ EditModeTo(desired_mode, choice, env)
        /\ IF desired_mode /\ crop_mode
           THEN crop_mode' = FALSE /\ crop_mode_var' = FALSE
           ELSE UNCHANGED <<crop_mode, crop_mode_var>>
        /\ UNCHANGED <<current_crop, crop_rectangles, crop_counter, parseVars>>

\* ------------------------------------------------------------ loading
\* fitz.open(path)
FitzOpen(path) == OpenDoc(files[path])

\* load_pdf() with file_path picked in the file dialog
LoadPdf(file_path) ==
    /\ loads_left > 0
    /\ loads_left' = loads_left - 1
    /\ LET doc == FitzOpen(file_path)
       IN  /\ pdf_list' = <<file_path>>
           /\ current_pdf_index' = 0
           /\ pdf_document' = doc
           /\ pdf_documents' = DictSet(EmptyDict, file_path, doc)
           /\ IF Len(doc.pages) = 0
              THEN /\ lastOp' = [op |-> "load_pdf", res |-> "empty", path |-> file_path]
                   /\ UNCHANGED <<pdf_path, sessionVars, is_merged_pdf>>
              ELSE /\ pdf_path' = file_path
                   /\ is_merged_pdf' = FALSE
                   /\ InitializeEditSession(doc, EmptyDict)
                   /\ lastOp' = [op |-> "load_pdf", res |-> "ok", path |-> file_path]
    /\ UNCHANGED <<cropVars, parseVars>>
    /\ UNCHANGED <<fsVars, clock, modeVars, merged_temp_path, pdf_modifications,
                   edits_left, applies_left, merges_left>>

\* load_current_pdf() once self.pdf_list, self.current_pdf_index and the
\* cache are list, index and cache
LoadCurrentPdf(list, index, cache, op) ==
    IF list = <<>> \/ index >= Len(list)
    THEN /\ pdf_documents' = cache
         /\ lastOp' = [op |-> op, res |-> "nothing to load"]
         /\ UNCHANGED <<pdf_document, pdf_path, sessionVars, is_merged_pdf>>
    ELSE LET current_pdf_path == list[index + 1]
             cache2 == IF current_pdf_path \in DOMAIN cache THEN cache
                       ELSE DictSet(cache, current_pdf_path, FitzOpen(current_pdf_path))
             doc == cache2[current_pdf_path]
         IN  /\ pdf_documents' = cache2
             /\ pdf_document' = doc
             /\ pdf_path' = current_pdf_path
             /\ IF doc.st = "closed"
                THEN \* len() of a closed document raises; the handler reports it
                     /\ lastOp' = [op |-> op, res |-> "error", path |-> current_pdf_path]
                     /\ UNCHANGED <<sessionVars, is_merged_pdf>>
                ELSE IF Len(doc.pages) = 0
                THEN /\ lastOp' = [op |-> op, res |-> "empty", path |-> current_pdf_path]
                     /\ UNCHANGED <<sessionVars, is_merged_pdf>>
                ELSE /\ is_merged_pdf' = FALSE
                     /\ InitializeEditSession(doc, EmptyDict)
                     /\ lastOp' = [op |-> op, res |-> "ok", path |-> current_pdf_path]

\* load_pdf_folder() on the folder holding the user's files
LoadPdfFolder ==
    /\ loads_left > 0
    /\ loads_left' = loads_left - 1
    /\ pdf_list' = FolderList
    /\ current_pdf_index' = 0
    /\ LoadCurrentPdf(FolderList, 0, EmptyDict, "load_pdf_folder")
    /\ UNCHANGED <<cropVars, parseVars>>
    /\ UNCHANGED <<fsVars, clock, modeVars, merged_temp_path, pdf_modifications,
                   edits_left, applies_left, merges_left>>

\* next_pdf()
NextPdf ==
    /\ loads_left > 0
    /\ loads_left' = loads_left - 1
    /\ Len(pdf_list) > 1
    /\ LET index == IF current_pdf_index < Len(pdf_list) - 1
                    THEN current_pdf_index + 1 ELSE 0
       IN  /\ current_pdf_index' = index
           /\ LoadCurrentPdf(pdf_list, index, pdf_documents, "next_pdf")
    /\ UNCHANGED <<cropVars, parseVars>>
    /\ UNCHANGED <<fsVars, clock, pdf_list, modeVars, merged_temp_path,
                   pdf_modifications, edits_left, applies_left, merges_left>>

\* previous_pdf()
PreviousPdf ==
    /\ loads_left > 0
    /\ loads_left' = loads_left - 1
    /\ Len(pdf_list) > 1
    /\ LET index == IF current_pdf_index > 0
                    THEN current_pdf_index - 1 ELSE Len(pdf_list) - 1
       IN  /\ current_pdf_index' = index
           /\ LoadCurrentPdf(pdf_list, index, pdf_documents, "previous_pdf")
    /\ UNCHANGED <<cropVars, parseVars>>
    /\ UNCHANGED <<fsVars, clock, pdf_list, modeVars, merged_temp_path,
                   pdf_modifications, edits_left, applies_left, merges_left>>

\* ------------------------------------------------------------- merging
\* the two inputs concatenated the other way round: the merge property must
\* tell it from MergedPages
MergedPagesSwapped(first_pages, second_pages) == second_pages \o first_pages

\* merged_doc.insert_pdf(first_doc); merged_doc.insert_pdf(second_doc)
MergedPages(first_pages, second_pages) == first_pages \o second_pages

\* perform_merge(first_pdf_path, second_pdf_path) followed by
\* load_merged_pdf(); env is "ok" or "failed" (a backend error before the
\* merged file is written)
PerformMerge(first_pdf_path, second_pdf_path, env) ==
    LET actual_first_path == get_actual_pdf_path(first_pdf_path)
        actual_second_path == get_actual_pdf_path(second_pdf_path)
        temp_path == <<"merged", clock>>
        pages == MergedPages(files[actual_first_path], files[actual_second_path])
        doc == OpenDoc(pages)
    IN  /\ merges_left > 0
        /\ merges_left' = merges_left - 1
        /\ merged_temp_path' = temp_path
        /\ IF env = "failed" \/ Len(pages) = 0
           THEN \* fitz refuses to save a document without pages
                /\ lastOp' = [op |-> "perform_merge", res |-> "error",
                              first |-> first_pdf_path, second |-> second_pdf_path]
                /\ UNCHANGED <<files, pdf_document, pdf_path, sessionVars, modeVars,
                               is_merged_pdf, cropVars>>
           ELSE /\ files' = (temp_path :> pages) @@ files
                \* load_merged_pdf: clear_all_state, then open the merged file
                /\ is_merged_pdf' = TRUE
                /\ pdf_path' = temp_path
                /\ pdf_document' = doc
                /\ InitializeEditSession(doc, EmptyDict)
                /\ edit_mode' = TRUE
                /\ edit_mode_var' = TRUE
                /\ crop_rectangles' = EmptyDict
                /\ crop_mode' = FALSE
                /\ crop_mode_var' = FALSE
                /\ UNCHANGED <<current_crop, crop_counter>>
                /\ lastOp' = [op |-> "perform_merge", res |-> "ok",
                              first |-> first_pdf_path, second |-> second_pdf_path]
        /\ UNCHANGED parseVars
        /\ UNCHANGED <<tmp_count, clock, pdf_list, current_pdf_index, pdf_documents,
                       pdf_modifications, edits_left, applies_left, loads_left>>

\* merge_two_pdfs(): the two entries of pdf_list picked in the dialog
MergeTwoPdfs(first_idx, second_idx, env) ==
    /\ Len(pdf_list) >= 2
    /\ first_idx \in 0..(Len(pdf_list) - 1)
    /\ second_idx \in 0..(Len(pdf_list) - 1)
    /\ first_idx # second_idx
    /\ PerformMerge(pdf_list[first_idx + 1], pdf_list[second_idx + 1], env)

\* merge_add_external(): the external file and the order picked in the dialog
MergeAddExternal(external_path, current_first, env) ==
    /\ DocTruthy(pdf_document)
    /\ IF current_first
       THEN PerformMerge(pdf_path, external_path, env)
       ELSE PerformMerge(external_path, pdf_path, env)

\* -------------------------------------------------------------- saving
\* the loop of save_edited_pdf and save_merged_pdf: pages the reader cannot
\* supply are skipped
RECURSIVE SaveBuild(_, _, _, _)
SaveBuild(reader_pages, order, deleted, rotations) ==
    IF order = <<>> THEN <<>>
    ELSE LET page_index == Head(order)
             rest == SaveBuild(reader_pages, Tail(order), deleted, rotations)
         IN  IF page_index \in deleted THEN rest
             ELSE IF page_index < Len(reader_pages)
             THEN LET page == reader_pages[page_index + 1]
                      page_number_1based == page_index + 1
                      rotation_angle == DictGet(rotations, page_number_1based, 0)
                  IN  <<IF rotation_angle \in {90, 180, 270}
                        THEN RotatePage(page, rotation_angle)
                        ELSE page>> \o rest
             ELSE rest

\* the file save_edited_pdf reads the pages from
SaveEditedSource == pdf_path

\* save_edited_pdf() to a new file picked in the dialog
SaveEditedPdf ==
    /\ DocTruthy(pdf_document)
    /\ HasChanges
    /\ SaveEditedSource \in DOMAIN files
    /\ lastOp' = [op |-> "save_edited_pdf", res |-> "ok",
                  out |-> SaveBuild(files[SaveEditedSource], page_order,
                                    deleted_pages, page_rotations)]
    /\ UNCHANGED <<cropVars, parseVars>>
    /\ UNCHANGED <<fsVars, clock, docVars, sessionVars, modeVars, mergeVars,
                   pdf_modifications, countVars>>

\* save_merged_pdf() to a new file picked in the dialog
SaveMergedPdf ==
    /\ is_merged_pdf
    /\ DocTruthy(pdf_document)
    /\ merged_temp_path \in DOMAIN files
    /\ lastOp' = [op |-> "save_merged_pdf", res |-> "ok",
                  out |-> SaveBuild(files[merged_temp_path], page_order,
                                    deleted_pages, page_rotations)]
    /\ UNCHANGED <<cropVars, parseVars>>
    /\ UNCHANGED <<fsVars, clock, docVars, sessionVars, modeVars, mergeVars,
                   pdf_modifications, countVars>>

\* ------------------------------------------------------------- cropping
\* page.rect of a page: the pages of A are 600 x 800 units, those of B
\* 800 x 600
PageRect(page) ==
    IF page.src = PathA THEN [width |-> 600, height |-> 800]
    ELSE [width |-> 800, height |-> 600]

\* a float, kept as the exact fraction num/den
Frac(n, d) == [num |-> n, den |-> d]

PyMin(a, b) == IF a <= b THEN a ELSE b

PyMax(a, b) == IF a >= b THEN a ELSE b

PyAbs(a) == IF a < 0 THEN 0 - a ELSE a

\* a size test that lets every rectangle through: the rejection of small
\* crops must tell it from TooSmall
NeverTooSmall(width, height) == FALSE

\* abs(end_x - start_x) < 10 or abs(end_y - start_y) < 10
TooSmall(width, height) == PyAbs(width) < 10 \/ PyAbs(height) < 10

\* the thumbnail coordinate taken as it is: the stored rectangle must tell it
\* from ToPdfCoord
ToPdfCoordUnscaled(v, thumb_extent, page_extent) == Frac(v, 1)

\* (v / thumb_extent) * page_extent
ToPdfCoord(v, thumb_extent, page_extent) == Frac(v * page_extent, thumb_extent)

\* toggle_crop_mode(): click says whether the checkbox was clicked (which flips
\* crop_mode_var first) or the menu entry or Ctrl+T was used (which does not);
\* entering crop mode in edit mode sets edit_mode_var to False and runs
\* toggle_edit_mode, whose dialog is answered by choice
ToggleCropMode(click, choice, env) ==
    LET desired == IF click THEN ~crop_mode_var ELSE crop_mode_var
    IN  /\ crop_mode' = desired
        /\ crop_mode_var' = desired
        /\ IF desired /\ edit_mode
           THEN EditModeTo(FALSE, choice, env)
           ELSE UNCHANGED <<fsVars, clock, docVars, sessionVars, modeVars, mergeVars,
                            pdf_modifications, lastOp, countVars>>
        /\ UNCHANGED <<current_crop, crop_rectangles, crop_counter, parseVars>>

\* start_crop: the mouse button goes down at (x, y) of the thumbnail of the
\* page with the 1-based number page_num
StartCrop(page_num, x, y) ==
    /\ crop_mode
    /\ pdf_document.st = "open"
    /\ page_num \in 1..Len(pdf_document.pages)
    /\ current_crop' = [page |-> page_num, start_x |-> x, start_y |-> y]
    /\ UNCHANGED <<crop_mode, crop_mode_var, crop_rectangles, crop_counter, parseVars>>
    /\ UNCHANGED <<fsVars, clock, docVars, sessionVars, modeVars, mergeVars,
                   pdf_modifications, lastOp, countVars>>

\* end_crop: the button is released at (x, y) of the same thumbnail, whose
\* label is thumb_width x thumb_height pixels
EndCrop(page_num, x, y, thumb_width, thumb_height) ==
    /\ crop_mode
    /\ current_crop # NoCrop
    /\ current_crop.page = page_num
    /\ crop_counter < MaxCrops
    /\ LET start_x == current_crop.start_x
           start_y == current_crop.start_y
           end_x == x
           end_y == y
           x1 == PyMin(start_x, end_x)
           x2 == PyMax(start_x, end_x)
           y1 == PyMin(start_y, end_y)
           y2 == PyMax(start_y, end_y)
           page_index == page_num - 1
           page_rect == PageRect(pdf_document.pages[page_index + 1])
           crop_data ==
               [id |-> crop_counter + 1,
                pdf_coords |-> <<ToPdfCoord(x1, thumb_width, page_rect.width),
                                 ToPdfCoord(y1, thumb_height, page_rect.height),
                                 ToPdfCoord(x2, thumb_width, page_rect.width),
                                 ToPdfCoord(y2, thumb_height, page_rect.height)>>,
                thumb_coords |-> <<x1, y1, x2, y2>>,
                pdf_path |-> pdf_path,
                page_num |-> page_num]
           res == IF TooSmall(end_x - start_x, end_y - start_y)
                  THEN "too small"
                  ELSE IF thumb_width <= 1 \/ thumb_height <= 1 THEN "no dimensions"
                  ELSE IF pdf_document.st # "open" THEN "error"
                  ELSE IF page_index >= Len(pdf_document.pages) THEN "no page"
                  ELSE "ok"
       IN  /\ lastOp' = [op |-> "end_crop", res |-> res, page |-> page_num,
                         sx |-> start_x, sy |-> start_y, x |-> x, y |-> y,
                         tw |-> thumb_width, th |-> thumb_height]
           /\ IF res = "ok"
              THEN /\ crop_counter' = crop_counter + 1
                   /\ crop_rectangles' =
                          DictSet(crop_rectangles, page_num,
                                  Append(DictGet(crop_rectangles, page_num, <<>>),
                                         crop_data))
                   /\ current_crop' = NoCrop
              ELSE /\ current_crop' = IF res = "error" THEN current_crop ELSE NoCrop
                   /\ UNCHANGED <<crop_rectangles, crop_counter>>
    /\ UNCHANGED <<crop_mode, crop_mode_var, parseVars>>
    /\ UNCHANGED <<fsVars, clock, docVars, sessionVars, modeVars, mergeVars,
                   pdf_modifications, countVars>>

\* ------------------------------------------- thumbnails and page controls
\* The handlers above say what a command does to the documents and to the
\* session. What it does to the thumbnails and to the page controls is said
\* here, and the two are joined in the actions of SpecThumbs; the other
\* specifications leave thumbVars alone.

\* None, an entry of page_thumbnails that was not rendered
NoPhoto == [page |-> [src |-> NoPath, idx |-> 0, rot |-> 0], rot |-> 0, size |-> 0]

\* ImageTk.PhotoImage of page.get_pixmap(matrix): the page, the rotation of
\* the matrix and the thumbnail size it was scaled to
RenderedPhoto(page, rotation, size) == [page |-> page, rot |-> rotation, size |-> size]

\* a thread that has not run yet
NewPass(kind) ==
    [kind |-> kind, pc |-> "start", total_pages |-> 0, page_num |-> 0,
     photo |-> NoPhoto, new_thumbnails |-> <<>>]

\* threading.Thread(target=..., daemon=True).start()
StartThread(kind) == Append(passes, NewPass(kind))

\* the loop of display_thumbnails from display_position on
RECURSIVE DisplayFrom(_, _, _, _, _)
DisplayFrom(thumbnails, order, deleted, edit, display_position) ==
    IF display_position >= Len(order) THEN <<>>
    ELSE LET original_page_index == order[display_position + 1]
             rest == DisplayFrom(thumbnails, order, deleted, edit, display_position + 1)
         IN  IF \/ original_page_index \in deleted
                \/ original_page_index >= Len(thumbnails)
                \/ thumbnails[original_page_index + 1] = NoPhoto
             THEN rest
             ELSE <<[page_index |-> original_page_index,
                     display_position |-> display_position,
                     edit |-> edit]>> \o rest

\* display_thumbnails(force_rebuild=True): the page controls it builds. A
\* control carries the page it shows (its rotate buttons pass page_index + 1)
\* and its display position (its delete button and its drag binding pass it);
\* the buttons and the binding exist if it was built in edit mode
DisplayThumbnails(thumbnails, order, deleted, edit) ==
    IF thumbnails = <<>> THEN <<>>
    ELSE DisplayFrom(thumbnails, order, deleted, edit, 0)

\* regenerate_ordered_thumbnails() after a handler has given the session the
\* order and the deleted pages: the page controls
RegenerateOrderedThumbnails(order, deleted) ==
    IF ~DocTruthy(pdf_document) \/ order = <<>>
    THEN page_widgets
    ELSE DisplayThumbnails(page_thumbnails, order, deleted, edit_mode)

\* the end of delete_page, bulk_delete_pages, reorder_pages and
\* reset_edit_session: the display is refreshed if the handler got that far
MutationRedraws ==
    /\ page_widgets' = IF lastOp'.res = "ok"
                       THEN RegenerateOrderedThumbnails(page_order', deleted_pages')
                       ELSE page_widgets
    /\ UNCHANGED <<thumbnail_size, page_thumbnails, passes, display_calls>>

\* the delete button of the control w (1-based in page_widgets)
ClickDelete(w) ==
    /\ w \in 1..Len(page_widgets)
    /\ page_widgets[w].edit
    /\ DeletePage(page_widgets[w].display_position)
    /\ MutationRedraws

\* the bulk-delete entry and its button
TypeBulkDelete(range_text) ==
    /\ BulkDeletePages(range_text)
    /\ MutationRedraws

\* a drag from the control w_source released over the control w_target. The
\* drag binding passes the display position of the source; the target is the
\* index of the control in page_widgets; clear_drop_highlights reads
\* page_order[i] for every control i but the one at the source index
DragControl(w_source, w_target) ==
    /\ w_source \in 1..Len(page_widgets)
    /\ w_target \in 1..Len(page_widgets)
    /\ page_widgets[w_source].edit
    /\ \A i \in 0..(Len(page_widgets) - 1) :
           i # page_widgets[w_source].display_position => i < Len(page_order)
    /\ EndDrag(page_widgets[w_source].display_position, w_target - 1)
    /\ MutationRedraws

\* the Reset button
ClickReset ==
    /\ ResetEditSession
    /\ MutationRedraws

\* regenerate_single_thumbnail(page_number) once the rotations are rotations:
\* the thumbnails
RegenerateSingleThumbnail(page_number, rotations) ==
    IF /\ pdf_document.st = "open"
       /\ page_number - 1 < Len(pdf_document.pages)
       /\ page_number - 1 < Len(page_thumbnails)
    THEN [page_thumbnails EXCEPT
             ![page_number] = RenderedPhoto(pdf_document.pages[page_number],
                                            DictGet(rotations, page_number, 0),
                                            thumbnail_size)]
    ELSE page_thumbnails

\* a rotate button of the control w
ClickRotate(w, angle) ==
    /\ w \in 1..Len(page_widgets)
    /\ page_widgets[w].edit
    /\ RotatePageAction(page_widgets[w].page_index + 1, angle)
    /\ page_thumbnails' =
           RegenerateSingleThumbnail(page_widgets[w].page_index + 1, page_rotations')
    /\ page_widgets' =
           DisplayThumbnails(page_thumbnails', page_order, deleted_pages, edit_mode)
    /\ UNCHANGED <<thumbnail_size, passes, display_calls>>

\* the edit mode checkbox, menu entry or shortcut: an apply that succeeds
\* starts a pass, a discard redraws, and unless the dialog was cancelled the
\* display is rebuilt at the end if there are thumbnails
ClickEditMode(click, choice, env) ==
    /\ ToggleEditMode(click, choice, env)
    /\ LET prompted == ExitPrompted(click)
           cancelled == prompted /\ choice = "cancel"
           discarded == prompted /\ choice = "discard"
           applied == prompted /\ choice = "update" /\ lastOp'.res = "ok"
       IN  /\ passes' = IF applied THEN StartThread("full") ELSE passes
           /\ page_widgets' =
                  IF cancelled THEN page_widgets
                  ELSE IF page_thumbnails # <<>>
                  THEN DisplayThumbnails(page_thumbnails, page_order',
                                         deleted_pages', edit_mode')
                  ELSE IF discarded THEN <<>>
                  ELSE page_widgets
    /\ UNCHANGED <<thumbnail_size, page_thumbnails, display_calls>>

\* Open PDF: load_pdf starts a pass once the session is initialized; the
\* thumbnails and the controls of the previous document stay as they are
OpenPdf(file_path) ==
    /\ LoadPdf(file_path)
    /\ passes' = IF lastOp'.res = "ok" THEN StartThread("full") ELSE passes
    /\ UNCHANGED <<thumbnail_size, page_thumbnails, page_widgets, display_calls>>

\* on_zoom_change(value) for a value under 500, which keeps the grid view
OnZoomChange(value) ==
    /\ value # thumbnail_size
    /\ thumbnail_size' = value
    /\ passes' = IF DocTruthy(pdf_document) THEN StartThread("zoom") ELSE passes
    /\ lastOp' = [op |-> "on_zoom_change", res |-> "ok", size |-> value]
    /\ UNCHANGED <<page_thumbnails, page_widgets, display_calls>>
    /\ UNCHANGED <<fsVars, clock, docVars, sessionVars, modeVars, mergeVars,
                   pdf_modifications, countVars, cropVars, parseVars>>

\* a thread that assigns to a session field: the passes must be told from it
ThreadFrameDroppingRotations ==
    /\ page_rotations' = EmptyDict
    /\ UNCHANGED <<page_order, deleted_pages, original_order, original_rotations,
                   has_edited, aliased>>
    /\ UNCHANGED <<fsVars, clock, docVars, modeVars, mergeVars, pdf_modifications,
                   lastOp, countVars, cropVars, parseVars>>

\* what generate_thumbnails and regenerate_thumbnails_for_zoom assign besides
\* page_thumbnails: nothing
ThreadFrame ==
    /\ UNCHANGED sessionVars
    /\ UNCHANGED <<fsVars, clock, docVars, modeVars, mergeVars, pdf_modifications,
                   lastOp, countVars, cropVars, parseVars>>

\* the thread i ends: it returned, or its except clause was reached
PassEnds(i) == ListPop(passes, i - 1)

\* generate_thumbnails, first lines: len(self.pdf_document) raises if there
\* is no document or it is closed; otherwise the list is allocated
GenerateThumbnailsStart(i) ==
    /\ i \in 1..Len(passes)
    /\ passes[i].kind = "full"
    /\ passes[i].pc = "start"
    /\ IF pdf_document.st # "open"
       THEN /\ passes' = PassEnds(i)
            /\ UNCHANGED page_thumbnails
       ELSE /\ page_thumbnails' = [k \in 1..Len(pdf_document.pages) |-> NoPhoto]
            /\ passes' = [passes EXCEPT ![i].pc = "render",
                                        ![i].total_pages = Len(pdf_document.pages)]
    /\ UNCHANGED <<thumbnail_size, page_widgets, display_calls>>
    /\ ThreadFrame

\* generate_thumbnails, one turn of the loop up to photo = PhotoImage(img),
\* reading self.pdf_document, self.thumbnail_size and self.page_rotations as
\* they are now; after the last turn the display callback is queued
GenerateThumbnailsRender(i) ==
    /\ i \in 1..Len(passes)
    /\ passes[i].kind = "full"
    /\ passes[i].pc = "render"
    /\ LET page_num == passes[i].page_num
       IN  IF page_num = passes[i].total_pages
           THEN /\ display_calls' = display_calls + 1
                /\ passes' = PassEnds(i)
           ELSE IF pdf_document.st # "open" \/ page_num >= Len(pdf_document.pages)
           THEN /\ passes' = PassEnds(i)
                /\ UNCHANGED display_calls
           ELSE /\ passes' =
                       [passes EXCEPT
                           ![i].pc = "store",
                           ![i].photo =
                               RenderedPhoto(pdf_document.pages[page_num + 1],
                                             DictGet(page_rotations, page_num + 1, 0),
                                             thumbnail_size)]
                /\ UNCHANGED display_calls
    /\ UNCHANGED <<thumbnail_size, page_thumbnails, page_widgets>>
    /\ ThreadFrame

\* generate_thumbnails: self.page_thumbnails[page_num] = photo, on the list
\* the attribute holds now
GenerateThumbnailsStore(i) ==
    /\ i \in 1..Len(passes)
    /\ passes[i].kind = "full"
    /\ passes[i].pc = "store"
    /\ LET page_num == passes[i].page_num
       IN  IF page_num >= Len(page_thumbnails)
           THEN /\ passes' = PassEnds(i)
                /\ UNCHANGED page_thumbnails
           ELSE /\ page_thumbnails' =
                       [page_thumbnails EXCEPT ![page_num + 1] = passes[i].photo]
                /\ passes' = [passes EXCEPT ![i].pc = "render",
                                            ![i].page_num = page_num + 1,
                                            ![i].photo = NoPhoto]
    /\ UNCHANGED <<thumbnail_size, page_widgets, display_calls>>
    /\ ThreadFrame

\* regenerate_thumbnails_for_zoom: the guard and the allocation of the local
\* list, then one turn of the loop per step (a page that cannot be rendered
\* leaves None), then the assignment of the list to self.page_thumbnails
RegenerateThumbnailsForZoom(i) ==
    /\ i \in 1..Len(passes)
    /\ passes[i].kind = "zoom"
    /\ LET page_num == passes[i].page_num
       IN  IF passes[i].pc = "start"
           THEN /\ passes' =
                       IF ~DocTruthy(pdf_document) \/ page_thumbnails = <<>>
                       THEN PassEnds(i)
                       ELSE [passes EXCEPT
                                ![i].pc = "render",
                                ![i].total_pages = Len(pdf_document.pages),
                                ![i].new_thumbnails =
                                    [k \in 1..Len(pdf_document.pages) |-> NoPhoto]]
                /\ UNCHANGED <<page_thumbnails, display_calls>>
           ELSE IF page_num < passes[i].total_pages
           THEN /\ passes' =
                       [passes EXCEPT
                           ![i].page_num = page_num + 1,
                           ![i].new_thumbnails[page_num + 1] =
                               IF /\ pdf_document.st = "open"
                                  /\ page_num < Len(pdf_document.pages)
                               THEN RenderedPhoto(pdf_document.pages[page_num + 1],
                                                  DictGet(page_rotations, page_num + 1, 0),
                                                  thumbnail_size)
                               ELSE NoPhoto]
                /\ UNCHANGED <<page_thumbnails, display_calls>>
           ELSE /\ page_thumbnails' = passes[i].new_thumbnails
                /\ display_calls' = display_calls + 1
                /\ passes' = PassEnds(i)
    /\ UNCHANGED <<thumbnail_size, page_widgets>>
    /\ ThreadFrame

\* a queued callback runs on the main thread: display_thumbnails(force_rebuild=True)
DisplayCallback ==
    /\ display_calls > 0
    /\ display_calls' = display_calls - 1
    /\ page_widgets' =
           DisplayThumbnails(page_thumbnails, page_order, deleted_pages, edit_mode)
    /\ UNCHANGED <<thumbnail_size, page_thumbnails, passes>>
    /\ UNCHANGED baseVars

\* ------------------------------------------------------ a call of the parser
\* parse_page_ranges(parse_text) with parse_count visible pages
ParseCall ==
    /\ parse_result = NotParsed
    /\ parse_result' = parse_page_ranges(parse_text, parse_count)
    /\ UNCHANGED <<parse_text, parse_count, cropVars>>
    /\ UNCHANGED <<fsVars, clock, docVars, sessionVars, modeVars, mergeVars,
                   pdf_modifications, lastOp, countVars>>

\* ------------------------------------------------------------ behaviour
\* the rotate buttons pressed in Spec: 1-based page numbers
PageNumbers == {2}

\* the drags made in Spec: <<source_index, target_index>>, 0-based positions
DragPairs == { <<0, 2>> }

\* the delete buttons pressed in Spec: 0-based display positions
DeletePositions == {0}

\* texts typed into the bulk-delete entry in Spec
RangeTexts == { <<"2", ",", "4">> }

Next ==
    \/ \E page_index \in DeletePositions : DeletePage(page_index)
           /\ UNCHANGED thumbVars
    \/ \E range_text \in RangeTexts : BulkDeletePages(range_text)
           /\ UNCHANGED thumbVars
    \/ \E drag \in DragPairs : EndDrag(drag[1], drag[2])
           /\ UNCHANGED thumbVars
    \/ \E page_number \in PageNumbers, angle \in {-90, 90} :
           RotatePageAction(page_number, angle)
           /\ UNCHANGED thumbVars
    \/ ResetEditSession
           /\ UNCHANGED thumbVars
    \/ ClearAllRotations
           /\ UNCHANGED thumbVars
    \/ \E click \in BOOLEAN : \E choice \in ChoicesAt(click) :
           \E env \in OutcomesAt(click, choice) : ToggleEditMode(click, choice, env)
           /\ UNCHANGED thumbVars
    \/ \E file_path \in DOMAIN SourceFiles : LoadPdf(file_path)
           /\ UNCHANGED thumbVars
    \/ LoadPdfFolder
           /\ UNCHANGED thumbVars
    \/ NextPdf
           /\ UNCHANGED thumbVars
    \/ PreviousPdf
           /\ UNCHANGED thumbVars
    \/ \E first_idx \in 0..1, second_idx \in 0..1, env \in {"ok", "failed"} :
           MergeTwoPdfs(first_idx, second_idx, env)
           /\ UNCHANGED thumbVars
    \/ \E external_path \in DOMAIN SourceFiles, current_first \in BOOLEAN,
          env \in {"ok", "failed"} :
           MergeAddExternal(external_path, current_first, env)
           /\ UNCHANGED thumbVars
    \/ SaveEditedPdf
           /\ UNCHANGED thumbVars
    \/ SaveMergedPdf
           /\ UNCHANGED thumbVars

Spec == Init /\ [][Next]_vars

\* One session explored in depth: every display position, every page number
\* and more texts, in a run of at most one load, one merge and one apply.
SessionRangeTexts ==
    { <<"2", ",", "4">>, <<"-", "2">>, <<"2", "-">>, <<"3", "-", "1">>,
      <<"1", ",", "9">>, <<"x">> }

SessionInit ==
    /\ AppInit
    /\ edits_left = SessionMaxEdits
    /\ applies_left = SessionMaxApply
    /\ merges_left = SessionMaxMerge
    /\ loads_left = SessionMaxLoad
    /\ parse_text = <<>>
    /\ parse_count = 0
    /\ parse_result = NotParsed

SessionNext ==
    \/ \E page_index \in Positions : DeletePage(page_index)
           /\ UNCHANGED thumbVars
    \/ \E range_text \in SessionRangeTexts : BulkDeletePages(range_text)
           /\ UNCHANGED thumbVars
    \/ \E source_index \in Positions, target_index \in Positions :
           EndDrag(source_index, target_index)
           /\ UNCHANGED thumbVars
    \/ \E page_number \in 1..MaxPages, angle \in {-90, 90} :
           RotatePageAction(page_number, angle)
           /\ UNCHANGED thumbVars
    \/ ResetEditSession
           /\ UNCHANGED thumbVars
    \/ ClearAllRotations
           /\ UNCHANGED thumbVars
    \/ \E click \in BOOLEAN : \E choice \in ChoicesAt(click) :
           \E env \in OutcomesAt(click, choice) : ToggleEditMode(click, choice, env)
           /\ UNCHANGED thumbVars
    \/ \E file_path \in DOMAIN SourceFiles : LoadPdf(file_path)
           /\ UNCHANGED thumbVars
    \/ \E external_path \in DOMAIN SourceFiles, current_first \in BOOLEAN,
          env \in {"ok", "failed"} :
           MergeAddExternal(external_path, current_first, env)
           /\ UNCHANGED thumbVars
    \/ SaveEditedPdf
           /\ UNCHANGED thumbVars
    \/ SaveMergedPdf
           /\ UNCHANGED thumbVars

SpecSession == SessionInit /\ [][SessionNext]_vars

\* reorder_pages on its own: a document is loaded and the function is called
\* with every pair of indices, in and out of range.
ReorderIndices == 0..MaxPages

ReorderNext ==
    \/ \E file_path \in DOMAIN SourceFiles : LoadPdf(file_path)
           /\ UNCHANGED thumbVars
    \/ \E source_index \in ReorderIndices, target_index \in ReorderIndices :
           ReorderPagesCall(source_index, target_index)
           /\ UNCHANGED thumbVars

SpecReorder == SessionInit /\ [][ReorderNext]_vars

\* Apply on its own: one document is loaded, edited through every control and
\* apply_edit_changes_to_pdf is called, with and without changes, by the
\* "Update PDF" answer or directly.
ApplyInit ==
    /\ AppInit
    /\ edits_left = ApplyMaxEdits
    /\ applies_left = ApplyMaxApply
    /\ merges_left = 0
    /\ loads_left = ApplyMaxLoad
    /\ parse_text = <<>>
    /\ parse_count = 0
    /\ parse_result = NotParsed

ApplyNext ==
    \/ \E file_path \in DOMAIN SourceFiles : LoadPdf(file_path)
           /\ UNCHANGED thumbVars
    \/ \E click \in BOOLEAN : \E choice \in ChoicesAt(click) :
           \E env \in OutcomesAt(click, choice) : ToggleEditMode(click, choice, env)
           /\ UNCHANGED thumbVars
    \/ \E page_index \in Positions : DeletePage(page_index)
           /\ UNCHANGED thumbVars
    \/ \E source_index \in Positions, target_index \in Positions :
           EndDrag(source_index, target_index)
           /\ UNCHANGED thumbVars
    \/ \E page_number \in 1..MaxPages, angle \in {-90, 90} :
           RotatePageAction(page_number, angle)
           /\ UNCHANGED thumbVars
    \/ ResetEditSession
           /\ UNCHANGED thumbVars
    \/ \E env \in ApplyOutcomes : ApplyCall(env)
           /\ UNCHANGED thumbVars

SpecApply == ApplyInit /\ [][ApplyNext]_vars

\* time.time() moves on to the next second
Tick ==
    /\ clock < MaxClock
    /\ clock' = clock + 1
    /\ UNCHANGED <<fsVars, docVars, sessionVars, modeVars, mergeVars,
                   pdf_modifications, lastOp, countVars, cropVars, parseVars>>

\* Merging on its own: files are opened and merged, more than once and also
\* within the same second, and the merged document is edited and updated.
MergeInit ==
    /\ AppInit
    /\ edits_left = MergeMaxEdits
    /\ applies_left = MergeMaxApply
    /\ merges_left = MergeMaxMerge
    /\ loads_left = MergeMaxLoad
    /\ parse_text = <<>>
    /\ parse_count = 0
    /\ parse_result = NotParsed

MergeNext ==
    \/ \E file_path \in DOMAIN SourceFiles : LoadPdf(file_path)
           /\ UNCHANGED thumbVars
    \/ LoadPdfFolder
           /\ UNCHANGED thumbVars
    \/ \E first_idx \in 0..1, second_idx \in 0..1, env \in {"ok", "failed"} :
           MergeTwoPdfs(first_idx, second_idx, env)
           /\ UNCHANGED thumbVars
    \/ \E external_path \in DOMAIN SourceFiles, current_first \in BOOLEAN,
          env \in {"ok", "failed"} :
           MergeAddExternal(external_path, current_first, env)
           /\ UNCHANGED thumbVars
    \/ \E page_index \in DeletePositions : DeletePage(page_index)
           /\ UNCHANGED thumbVars
    \/ \E click \in BOOLEAN : \E choice \in ChoicesAt(click) :
           \E env \in OutcomesAt(click, choice) : ToggleEditMode(click, choice, env)
           /\ UNCHANGED thumbVars
    \/ Tick
           /\ UNCHANGED thumbVars

SpecMerge == MergeInit /\ [][MergeNext]_vars

\* The file at path is replaced on disk by a shorter one (by another
\* program, or by the user) while the application runs: save_edited_pdf and
\* save_merged_pdf read the file again when they are run. The document that
\* is open keeps its pages.
FileReplacedOnDisk(path) ==
    /\ path \in DOMAIN files
    /\ Len(files[path]) >= 2
    /\ files' = [files EXCEPT ![path] = SubSeq(files[path], 1, Len(files[path]) - 1)]
    /\ UNCHANGED <<tmp_count, clock, docVars, sessionVars, modeVars, mergeVars,
                   pdf_modifications, lastOp, countVars, cropVars, parseVars>>

\* Saving on its own: a file is opened or merged, edited, updated and saved,
\* and the files on disk may change between the load and the save.
SaveInit ==
    /\ AppInit
    /\ edits_left = SaveMaxEdits
    /\ applies_left = SaveMaxApply
    /\ merges_left = SaveMaxMerge
    /\ loads_left = SaveMaxLoad
    /\ parse_text = <<>>
    /\ parse_count = 0
    /\ parse_result = NotParsed

SaveNext ==
    \/ \E file_path \in DOMAIN SourceFiles : LoadPdf(file_path)
           /\ UNCHANGED thumbVars
    \/ \E external_path \in DOMAIN SourceFiles, current_first \in BOOLEAN,
          env \in {"ok", "failed"} :
           MergeAddExternal(external_path, current_first, env)
           /\ UNCHANGED thumbVars
    \/ \E click \in BOOLEAN : \E choice \in ChoicesAt(click) :
           \E env \in OutcomesAt(click, choice) : ToggleEditMode(click, choice, env)
           /\ UNCHANGED thumbVars
    \/ \E page_index \in DeletePositions : DeletePage(page_index)
           /\ UNCHANGED thumbVars
    \/ \E page_number \in PageNumbers, angle \in {-90, 90} :
           RotatePageAction(page_number, angle)
           /\ UNCHANGED thumbVars
    \/ SaveEditedPdf
           /\ UNCHANGED thumbVars
    \/ SaveMergedPdf
           /\ UNCHANGED thumbVars
    \/ \E path \in {pdf_path, merged_temp_path} : FileReplacedOnDisk(path)
           /\ UNCHANGED thumbVars

SpecSave == SaveInit /\ [][SaveNext]_vars

\* The modes on their own: a file is opened or merged, a page is rotated or
\* deleted, and the two mode switches are used in any order, the "Exit Edit
\* Mode" dialog being answered in every way.
ModesInit ==
    /\ AppInit
    /\ edits_left = ModesMaxEdits
    /\ applies_left = ModesMaxApply
    /\ merges_left = ModesMaxMerge
    /\ loads_left = ModesMaxLoad
    /\ parse_text = <<>>
    /\ parse_count = 0
    /\ parse_result = NotParsed

ModesNext ==
    \/ \E file_path \in DOMAIN SourceFiles : LoadPdf(file_path)
           /\ UNCHANGED thumbVars
    \/ \E external_path \in DOMAIN SourceFiles, current_first \in BOOLEAN,
          env \in {"ok", "failed"} :
           MergeAddExternal(external_path, current_first, env)
           /\ UNCHANGED thumbVars
    \/ \E click \in BOOLEAN : \E choice \in ChoicesAt(click) :
           \E env \in OutcomesAt(click, choice) : ToggleEditMode(click, choice, env)
           /\ UNCHANGED thumbVars
    \/ \E click \in BOOLEAN, choice \in ExitChoices, env \in ApplyOutcomes :
           ToggleCropMode(click, choice, env)
           /\ UNCHANGED thumbVars
    \/ \E page_index \in DeletePositions : DeletePage(page_index)
           /\ UNCHANGED thumbVars
    \/ \E page_number \in PageNumbers, angle \in {-90, 90} :
           RotatePageAction(page_number, angle)
           /\ UNCHANGED thumbVars

SpecModes == ModesInit /\ [][ModesNext]_vars

\* --------------------------------------------- loading, an empty file too
\* the application started with an empty PDF among the user's files
LoadInit ==
    /\ AppInitOn(FilesWithEmpty)
    /\ edits_left = LoadMaxEdits
    /\ applies_left = LoadMaxApply
    /\ merges_left = LoadMaxMerge
    /\ loads_left = LoadMaxLoad
    /\ parse_text = <<>>
    /\ parse_count = 0
    /\ parse_result = NotParsed

LoadNext ==
    \/ \E file_path \in DOMAIN FilesWithEmpty : LoadPdf(file_path)
           /\ UNCHANGED thumbVars
    \/ LoadPdfFolder
           /\ UNCHANGED thumbVars
    \/ NextPdf
           /\ UNCHANGED thumbVars
    \/ PreviousPdf
           /\ UNCHANGED thumbVars
    \/ \E external_path \in DOMAIN FilesWithEmpty, current_first \in BOOLEAN,
          env \in {"ok", "failed"} :
           MergeAddExternal(external_path, current_first, env)
           /\ UNCHANGED thumbVars
    \/ \E click \in BOOLEAN : \E choice \in ChoicesAt(click) :
           \E env \in OutcomesAt(click, choice) : ToggleEditMode(click, choice, env)
           /\ UNCHANGED thumbVars
    \/ \E page_index \in DeletePositions : DeletePage(page_index)
           /\ UNCHANGED thumbVars

SpecLoad == LoadInit /\ [][LoadNext]_vars

\* ------------------------------------------- the rotate buttons, four times
RotateInit ==
    /\ AppInit
    /\ edits_left = RotateMaxEdits
    /\ applies_left = RotateMaxApply
    /\ merges_left = 0
    /\ loads_left = RotateMaxLoad
    /\ parse_text = <<>>
    /\ parse_count = 0
    /\ parse_result = NotParsed

RotateNext ==
    \/ \E file_path \in DOMAIN SourceFiles : LoadPdf(file_path)
           /\ UNCHANGED thumbVars
    \/ \E click \in BOOLEAN : \E choice \in ChoicesAt(click) :
           \E env \in OutcomesAt(click, choice) : ToggleEditMode(click, choice, env)
           /\ UNCHANGED thumbVars
    \/ \E page_number \in 1..Len(pdf_document.pages), angle \in {-90, 90} :
           RotatePageAction(page_number, angle)
           /\ UNCHANGED thumbVars

SpecRotate == RotateInit /\ [][RotateNext]_vars

\* Cropping on its own: a document is loaded and rectangles are dragged on its
\* thumbnails.
CropXs == {0, 5, 10, 75, 150}

CropYs == {0, 100, 200}

\* winfo_width() and winfo_height() of a thumbnail label; 1 x 1 before the
\* label is laid out
ThumbSizes == { <<150, 200>>, <<1, 1>> }

CropInit ==
    /\ AppInit
    /\ edits_left = 0
    /\ applies_left = 0
    /\ merges_left = 0
    /\ loads_left = CropMaxLoad
    /\ parse_text = <<>>
    /\ parse_count = 0
    /\ parse_result = NotParsed

CropNext ==
    \/ \E file_path \in DOMAIN SourceFiles : LoadPdf(file_path)
           /\ UNCHANGED thumbVars
    \/ \E click \in BOOLEAN : ToggleCropMode(click, "cancel", "ok")
           /\ UNCHANGED thumbVars
    \/ \E page_num \in 1..MaxPages, x \in CropXs, y \in CropYs :
           StartCrop(page_num, x, y)
           /\ UNCHANGED thumbVars
    \/ \E page_num \in 1..MaxPages, x \in CropXs, y \in CropYs, size \in ThumbSizes :
           EndCrop(page_num, x, y, size[1], size[2])
           /\ UNCHANGED thumbVars

SpecCrop == CropInit /\ [][CropNext]_vars

\* The thumbnails and the page controls: the commands act through the
\* controls on display while the background passes run, one statement group
\* at a time, in any interleaving. Edit mode is left by Discard or not at
\* all, and the zoom goes from 150 to 200.
ZoomSizes == {200}

ThumbRangeTexts == { <<"1", "-", "2">> }

ThumbInit ==
    /\ AppInit
    /\ edits_left = ThumbMaxEdits
    /\ applies_left = 0
    /\ merges_left = 0
    /\ loads_left = ThumbMaxLoad
    /\ parse_text = <<>>
    /\ parse_count = 0
    /\ parse_result = NotParsed

ThumbNext ==
    \/ \E file_path \in DOMAIN SourceFiles :
           Len(passes) < MaxPasses /\ OpenPdf(file_path)
    \/ \E click \in BOOLEAN : \E choice \in ChoicesAt(click) \ {"update"} :
           ClickEditMode(click, choice, "ok")
    \/ \E value \in ZoomSizes : Len(passes) < MaxPasses /\ OnZoomChange(value)
    \/ \E w \in 1..MaxPages : ClickDelete(w)
    \/ \E range_text \in ThumbRangeTexts : TypeBulkDelete(range_text)
    \/ \E w_source \in 1..MaxPages, w_target \in 1..MaxPages :
           DragControl(w_source, w_target)
    \/ \E w \in 1..MaxPages, angle \in {-90, 90} : ClickRotate(w, angle)
    \/ ClickReset
    \/ \E i \in 1..MaxPasses : GenerateThumbnailsStart(i)
    \/ \E i \in 1..MaxPasses : GenerateThumbnailsRender(i)
    \/ \E i \in 1..MaxPasses : GenerateThumbnailsStore(i)
    \/ \E i \in 1..MaxPasses : RegenerateThumbnailsForZoom(i)
    \/ DisplayCallback

SpecThumbs == ThumbInit /\ [][ThumbNext]_vars

\* The parser on its own: one call on a text and a page count.
ParseChars == {"0", "1", "2", "3", "5", "9", "-", ",", " ", "x"}

\* every text of at most MaxTextLen characters of ParseChars, and some longer
\* ones
ParseTexts ==
    UNION {[1..n -> ParseChars] : n \in 0..MaxTextLen}
        \cup { <<"2", "-", "4", ",", "7">>, <<"-", "1", "1">>, <<"1", "1", "-">>,
               <<"1", ",", "x", "y">>, <<"1", ",", "-", "9">>,
               <<"9", "-", ",", "1">>, <<"1", ",", "-", "0">> }

ParseCounts == {3, 10}

ParseInit ==
    /\ AppInit
    /\ edits_left = 0
    /\ applies_left = 0
    /\ merges_left = 0
    /\ loads_left = 0
    /\ parse_text \in ParseTexts
    /\ parse_count \in ParseCounts
    /\ parse_result = NotParsed

ParseNext == ParseCall /\ UNCHANGED thumbVars

SpecParse == ParseInit /\ [][ParseNext]_vars

\* ------------------------------------------------------------- properties
\* the handler that ran in a step, told by the budget it consumed
EditStep == edits_left' # edits_left

ApplyStep == tmp_count' # tmp_count

MergeStep == merges_left' # merges_left

\* the rotation tracked for a 0-based page identity
TrackedRotation(identity) == DictGet(page_rotations, identity + 1, 0)

\* same page content, whatever the rotation
SameContent(p, q) == p.src = q.src /\ p.idx = q.idx

\* C1: an apply on a session with changes writes a document of len(order)
\* pages whose page k is the page of the live document with identity
\* order[k], turned by the rotation tracked for that identity.
C1_ApplyOutput ==
    [][(ApplyStep /\ lastOp'.op = "apply_edit_changes_to_pdf"
            /\ lastOp'.res \in {"ok", "open failed"})
       => LET out == files'[lastOp'.temp]
          IN  /\ Len(out) = Len(page_order)
              /\ \A k \in 1..Len(page_order) :
                     LET source == pdf_document.pages[page_order[k] + 1]
                     IN  /\ SameContent(out[k], source)
                         /\ out[k].rot =
                                (source.rot + TrackedRotation(page_order[k])) % 360]_vars

\* C1: apply has written A without its first page and with its second page
\* turned by 90
C1_Witness ==
    /\ lastOp.op = "apply_edit_changes_to_pdf"
    /\ lastOp.res = "ok"
    /\ pdf_path = PathA
    /\ files[lastOp.temp] = <<[src |-> PathA, idx |-> 1, rot |-> 90],
                              [src |-> PathA, idx |-> 2, rot |-> 0]>>

\* C2: after a successful apply the session is the identity listing of the
\* new document, with nothing deleted, no rotation tracked, the snapshots equal
\* to the live values and no change pending.
C2_AfterApplyClean ==
    (lastOp.op = "apply_edit_changes_to_pdf" /\ lastOp.res = "ok")
    => /\ page_order = ListRange(Len(pdf_document.pages))
       /\ deleted_pages = {}
       /\ page_rotations = EmptyDict
       /\ original_order = page_order
       /\ original_rotations = page_rotations
       /\ ~HasChanges

\* C3: after a reset the order and the rotations are those of the snapshot
\* and nothing is deleted.
C3_ResetRestores ==
    lastOp.op = "reset_edit_session"
    => /\ page_order = original_order
       /\ deleted_pages = {}
       /\ page_rotations = original_rotations

\* C4: the pages on display and the deleted pages always add up to the page
\* count of the document the session was opened over.
C4_PageCountConserved ==
    Len(page_order) + Cardinality(deleted_pages) = Len(original_order)

\* C4: a delete has acted on a five-page session
C4_Witness ==
    /\ lastOp.op = "delete_page"
    /\ lastOp.res = "ok"
    /\ Len(original_order) = 5
    /\ Len(page_order) = 4
    /\ Cardinality(deleted_pages) = 1

\* the positions a bulk delete was given
C5_Positions(text, count) ==
    LET parsed == parse_page_ranges(text, count).pages
    IN  {parsed[i] : i \in 1..Len(parsed)}

\* C5: a bulk delete resolves its positions against the order at the time of
\* the call and removes exactly the identities at those positions, as one
\* batch: the other pages keep their relative order.
C5_BulkDeleteBatch ==
    [][(EditStep /\ lastOp'.op = "bulk_delete_pages" /\ lastOp'.res = "ok")
       => LET given == C5_Positions(lastOp'.text, Len(page_order))
              kept == (1..Len(page_order)) \ given
          IN  /\ deleted_pages' = deleted_pages \cup {page_order[p] : p \in given}
              /\ Len(page_order') = Cardinality(kept)
              /\ \A p \in kept :
                     page_order'[Cardinality({q \in kept : q <= p})] = page_order[p]]_vars

\* C5: bulk delete of positions 2 and 4 of a fresh five-page session
C5_Witness ==
    /\ lastOp.op = "bulk_delete_pages"
    /\ lastOp.res = "ok"
    /\ lastOp.text = <<"2", ",", "4">>
    /\ original_order = <<0, 1, 2, 3, 4>>
    /\ page_order = <<0, 2, 4>>
    /\ deleted_pages = {1, 3}

\* a drag from position 1 onto position 3 (0-based 0 and 2) of four pages
C6_DragStep ==
    /\ EditStep
    /\ lastOp'.op = "reorder_pages"
    /\ lastOp'.res = "ok"
    /\ lastOp'.src = 0
    /\ lastOp'.tgt = 2
    /\ Len(page_order) = 4

\* C6 as stated: reorder(1,3) on [A,B,C,D] gives [B,C,A,D].
C6_ReorderAsStated ==
    [][C6_DragStep
       => page_order' = <<page_order[2], page_order[3], page_order[1],
                          page_order[4]>>]_vars

\* C6: reorder(1,3) on [A,B,C,D] gives [B,A,C,D]: the page dragged from
\* position 1 onto position 3 is put back at position 2, right before the
\* page it was dropped on.
C6_ReorderBeforeTarget ==
    [][C6_DragStep
       => page_order' = <<page_order[2], page_order[1], page_order[3],
                          page_order[4]>>]_vars

\* C6: the drag has acted on the order [0,1,2,3]
C6_Witness ==
    /\ lastOp.op = "reorder_pages"
    /\ lastOp.res = "ok"
    /\ lastOp.src = 0
    /\ lastOp.tgt = 2
    /\ deleted_pages = {4}
    /\ page_order = <<1, 0, 2, 3>>

\* C7: a merge of A then B writes and opens a document of countA + countB
\* pages, the pages of the latest materialized version of A in order and then
\* those of B, and the session is its identity listing with nothing deleted
\* and no rotation tracked.
C7_MergeResult ==
    [][(MergeStep /\ lastOp'.op = "perform_merge" /\ lastOp'.res = "ok")
       => LET a == files[get_actual_pdf_path(lastOp'.first)]
              b == files[get_actual_pdf_path(lastOp'.second)]
              out == files'[pdf_path']
          IN  /\ Len(out) = Len(a) + Len(b)
              /\ \A k \in 1..Len(a) : out[k] = a[k]
              /\ \A k \in 1..Len(b) : out[Len(a) + k] = b[k]
              /\ pdf_document'.st = "open"
              /\ pdf_document'.pages = out
              /\ page_order' = [k \in 1..Len(out) |-> k - 1]
              /\ deleted_pages' = {}
              /\ page_rotations' = EmptyDict]_vars

\* C7: A, applied with a page deleted, has been merged with B
C7_Witness ==
    /\ lastOp.op = "perform_merge"
    /\ lastOp.res = "ok"
    /\ lastOp.first = PathA
    /\ lastOp.second = PathB
    /\ PathA \in DOMAIN pdf_modifications
    /\ Len(files[pdf_modifications[PathA].temp_path]) = 2
    /\ pdf_document.pages =
           files[pdf_modifications[PathA].temp_path] \o SourceFiles[PathB]
    /\ page_order = <<0, 1, 2, 3>>

\* C8: resolve(P) is P until an apply on P succeeds, and from then on the
\* path recorded by the most recent successful apply on P: only a successful
\* apply on P changes it.
C8_ResolveLatestSuccess ==
    /\ \A p \in DOMAIN files : get_actual_pdf_path(p) = p
    /\ [][\A p \in DOMAIN files :
              IF /\ ApplyStep
                 /\ lastOp'.op = "apply_edit_changes_to_pdf"
                 /\ lastOp'.res = "ok"
                 /\ p = pdf_path
              THEN get_actual_pdf_path(p)' = lastOp'.temp
              ELSE get_actual_pdf_path(p)' = get_actual_pdf_path(p)]_vars

\* C9: once an apply has acted on P, a load of P (Open PDF, Open Folder,
\* navigation in the folder) opens the edited materialization.
C9_ReopenGivesMaterialized ==
    (/\ lastOp.op \in {"load_pdf", "load_pdf_folder", "next_pdf", "previous_pdf"}
     /\ lastOp.res = "ok"
     /\ lastOp.path \in DOMAIN pdf_modifications)
    => pdf_document.pages = files[pdf_modifications[lastOp.path].temp_path]

\* C10: once an apply has succeeded on the live path, a Save reads its pages
\* from the edited materialization: output page k is the page with identity
\* order[k] of the post-apply document.
C10_SaveReadsMaterialized ==
    (/\ lastOp.op \in {"save_edited_pdf", "save_merged_pdf"}
     /\ pdf_path \in DOMAIN pdf_modifications
     /\ pdf_document.st = "open"
     /\ pdf_document.pages = files[pdf_modifications[pdf_path].temp_path])
    => /\ Len(lastOp.out) = Len(page_order)
       /\ \A k \in 1..Len(page_order) :
              SameContent(lastOp.out[k], pdf_document.pages[page_order[k] + 1])

\* C11: an apply that fails, at whichever step, leaves order, deleted,
\* rotations, the snapshots, the live document handle and the modification
\* record as they were, and the session still has its changes.
C11_FailedApplyChangesNothing ==
    [][(ApplyStep /\ lastOp'.op = "apply_edit_changes_to_pdf"
            /\ lastOp'.res \in {"save failed", "write failed", "open failed"})
       => /\ UNCHANGED <<page_order, deleted_pages, page_rotations, original_order,
                         original_rotations, has_edited>>
          /\ pdf_document' = pdf_document
          /\ pdf_modifications' = pdf_modifications
          /\ HasChanges']_vars

\* the number a digit character stands for
DigitNumber ==
    ("0" :> 0) @@ ("1" :> 1) @@ ("2" :> 2) @@ ("3" :> 3) @@ ("4" :> 4) @@
    ("5" :> 5) @@ ("6" :> 6) @@ ("7" :> 7) @@ ("8" :> 8) @@ ("9" :> 9)

\* list is the set S in increasing order
IsSortedListOf(list, S) ==
    /\ Len(list) = Cardinality(S)
    /\ {list[i] : i \in 1..Len(list)} = S
    /\ \A i \in 1..Len(list) : \A j \in 1..Len(list) : i < j => list[i] < list[j]

\* the call gave positions, and they are the set S in increasing order
ParseGives(S) == parse_result.err = "" /\ IsSortedListOf(parse_result.pages, S)

\* C12: parse gives the sorted set of positions its tokens denote: "-N" is
\* 1..N, "N-" is N..count, "A-B" the inclusive range whichever of A and B is
\* larger, "N" the position N, and a list of tokens their union; with count 10,
\* "-3" is {1,2,3}, "3-" is {3..10}, "2-4,7" is {2,3,4,7} and "5-2" is
\* {2,3,4,5}.
C12_ParseDenotes ==
    parse_result # NotParsed =>
        /\ parse_result.err = ""
               => \A i \in 1..Len(parse_result.pages) :
                      \A j \in 1..Len(parse_result.pages) :
                          i < j => parse_result.pages[i] < parse_result.pages[j]
        /\ \A a \in DOMAIN DigitNumber :
               LET n == DigitNumber[a]
               IN  /\ (parse_text = <<"-", a>> /\ n \in 1..parse_count)
                          => ParseGives(1..n)
                   /\ (parse_text = <<a, "-">> /\ n \in 1..parse_count)
                          => ParseGives(n..parse_count)
                   /\ parse_text = <<a>> => ParseGives({n})
                   /\ \A b \in DOMAIN DigitNumber :
                          LET m == DigitNumber[b]
                          IN  /\ parse_text = <<a, "-", b>>
                                     => ParseGives(IF n > m THEN m..n ELSE n..m)
                              /\ parse_text = <<a, ",", b>> => ParseGives({n, m})
        /\ parse_count = 10 =>
               /\ parse_text = <<"-", "3">> => parse_result.pages = <<1, 2, 3>>
               /\ parse_text = <<"3", "-">>
                      => parse_result.pages = <<3, 4, 5, 6, 7, 8, 9, 10>>
               /\ parse_text = <<"2", "-", "4", ",", "7">>
                      => parse_result.pages = <<2, 3, 4, 7>>
               /\ parse_text = <<"5", "-", "2">>
                      => parse_result.pages = <<2, 3, 4, 5>>

\* C12: "5-2" has been parsed with ten pages visible
C12_Witness ==
    /\ parse_text = <<"5", "-", "2">>
    /\ parse_count = 10
    /\ parse_result.err = ""
    /\ parse_result.pages = <<2, 3, 4, 5>>

\* the fraction f is the number v / tw * pw
FracIs(f, v, tw, pw) == f.den # 0 /\ f.num * tw = v * pw * f.den

\* C13: a drag between two corners of a thumbnail of tw x th pixels showing a
\* page of pw x ph units stores the rectangle (x1/tw*pw, y1/th*ph, x2/tw*pw,
\* y2/th*ph), (x1, y1, x2, y2) being the dragged rectangle with x1 <= x2 and
\* y1 <= y2 whichever corner the drag started from.
C13_CropTransform ==
    [][crop_counter' # crop_counter
       => LET page_num == lastOp'.page
              stored == crop_rectangles'[page_num][Len(crop_rectangles'[page_num])]
              sx == current_crop.start_x
              sy == current_crop.start_y
              ex == lastOp'.x
              ey == lastOp'.y
              x1 == IF sx <= ex THEN sx ELSE ex
              x2 == IF sx <= ex THEN ex ELSE sx
              y1 == IF sy <= ey THEN sy ELSE ey
              y2 == IF sy <= ey THEN ey ELSE sy
              tw == lastOp'.tw
              th == lastOp'.th
              pw == PageRect(pdf_document.pages[page_num]).width
              ph == PageRect(pdf_document.pages[page_num]).height
          IN  /\ stored.thumb_coords = <<x1, y1, x2, y2>>
              /\ FracIs(stored.pdf_coords[1], x1, tw, pw)
              /\ FracIs(stored.pdf_coords[2], y1, th, ph)
              /\ FracIs(stored.pdf_coords[3], x2, tw, pw)
              /\ FracIs(stored.pdf_coords[4], y2, th, ph)]_vars

\* C13: on a 150 x 200 thumbnail of a 600 x 800 page, a drag from the corner
\* (150,200) back to (75,100) has stored (300,400)-(600,800)
C13_Witness ==
    /\ lastOp.op = "end_crop"
    /\ lastOp.res = "ok"
    /\ lastOp.x = 75
    /\ lastOp.y = 100
    /\ lastOp.tw = 150
    /\ lastOp.th = 200
    /\ pdf_path = PathA
    /\ lastOp.page \in DOMAIN crop_rectangles
    /\ LET stored == crop_rectangles[lastOp.page][1]
       IN  /\ stored.thumb_coords = <<75, 100, 150, 200>>
           /\ stored.pdf_coords[1].num = 300 * stored.pdf_coords[1].den
           /\ stored.pdf_coords[2].num = 400 * stored.pdf_coords[2].den
           /\ stored.pdf_coords[3].num = 600 * stored.pdf_coords[3].den
           /\ stored.pdf_coords[4].num = 800 * stored.pdf_coords[4].den

\* C14: a reorder of a position onto itself changes nothing: reorder_pages
\* called with equal indices returns the order and the edited flag as they
\* are, and a page dropped on its own control leaves order, deleted pages,
\* rotations and the dirty status unchanged.
C14_ReorderSameNoOp ==
    /\ [](\A i \in Positions :
              LET r == reorder_pages(i, i)
              IN  /\ r.order = page_order
                  /\ r.edited = has_edited
                  /\ r.res = "same")
    /\ [][(EditStep /\ lastOp'.op = "reorder_pages" /\ lastOp'.src = lastOp'.tgt)
           => /\ UNCHANGED <<page_order, deleted_pages, page_rotations, has_edited>>
              /\ HasChanges' = HasChanges]_vars

\* C14: the second of three pages has been dropped on itself in a session
\* without changes
C14_Witness ==
    /\ lastOp.op = "reorder_pages"
    /\ lastOp.src = 1
    /\ lastOp.tgt = 1
    /\ page_order = <<0, 1, 2>>
    /\ deleted_pages = {}
    /\ ~HasChanges
    /\ reorder_pages(1, 1).order = <<0, 1, 2>>

\* C15: in every reachable state the session is dirty (what the program tests
\* before reset, apply and save) if and only if the order differs from the
\* snapshot order, or a page is deleted, or the rotations differ from the
\* snapshot rotations.
C15_DirtyIffDiffers ==
    HasChanges <=> \/ page_order # original_order
                   \/ deleted_pages # {}
                   \/ page_rotations # original_rotations

C17_BadBatch(text, count) ==
    /\ \A i \in 1..(Len(text) - 1) : ~(IsDigit(text[i]) /\ IsDigit(text[i + 1]))
    /\ \E i \in 1..Len(text) :
           \/ ~IsDigit(text[i]) /\ text[i] \notin {"-", ",", " "}
           \/ IsDigit(text[i]) /\ DigitNumber[text[i]] \notin 1..count

\* C17: a bulk delete is all-or-nothing: when the text does not parse or
\* names a position outside 1..len(order), no page is deleted, and order,
\* deleted and the dirty status stay as they are.
C17_BulkDeleteAllOrNothing ==
    [][(/\ EditStep
        /\ lastOp'.op = "bulk_delete_pages"
        /\ C17_BadBatch(lastOp'.text, Len(page_order)))
       => /\ UNCHANGED <<page_order, deleted_pages, has_edited>>
          /\ HasChanges' = HasChanges
          /\ lastOp'.res # "ok"]_vars

\* C17: the batch "1,9" was refused on three pages: position 1 is there and
\* position 9 is not, and nothing was deleted
C17_Witness ==
    /\ lastOp.op = "bulk_delete_pages"
    /\ lastOp.text = <<"1", ",", "9">>
    /\ lastOp.res = "invalid positions"
    /\ page_order = <<0, 1, 2>>
    /\ deleted_pages = {}
    /\ ~HasChanges

\* C18: a reorder with the source or the target position outside the order
\* fails with an IndexError and leaves the order exactly as it was.
C18_ReorderOutOfRangeFails ==
    [][(/\ EditStep
        /\ lastOp'.op = "reorder_pages"
        /\ lastOp'.src # lastOp'.tgt
        /\ \/ lastOp'.src >= Len(page_order)
           \/ lastOp'.tgt >= Len(page_order))
       => /\ lastOp'.res = "IndexError"
          /\ page_order' = page_order
          /\ has_edited' = has_edited]_vars

\* C19: parse rejects, returning no positions, a token "-N" or "N-" whose N
\* is outside 1..count (a range error: N is not positive, or N exceeds the
\* page count), alone or after a valid token, and a bare "-" (a format
\* error).
C19_RejectsBadOpenRanges ==
    parse_result # NotParsed =>
        /\ \A a \in DOMAIN DigitNumber :
               LET n == DigitNumber[a]
               IN  (/\ n \notin 1..parse_count
                    /\ parse_text \in { <<"-", a>>, <<a, "-">>, <<"1", ",", "-", a>>,
                                        <<a, "-", ",", "1">> })
                   => /\ parse_result.err = IF n < 1 THEN "positive" ELSE "exceeds"
                      /\ parse_result.pages = <<>>
        /\ parse_text \in { <<"-", "1", "1">>, <<"1", "1", "-">> }
               => /\ parse_result.err = "exceeds"
                  /\ parse_result.pages = <<>>
        /\ parse_text \in { <<"-">>, <<" ", "-">>, <<"-", " ">>, <<"1", ",", "-">>,
                            <<"-", ",", "1">> }
               => /\ parse_result.err = "standalone"
                  /\ parse_result.pages = <<>>

\* C19: "1,-9" has been refused with three pages visible: position 1 is not
\* returned
C19_Witness ==
    /\ parse_text = <<"1", ",", "-", "9">>
    /\ parse_count = 3
    /\ parse_result.err = "exceeds"
    /\ parse_result.pages = <<>>

\* C20: a token that is not a number makes parse fail with a format error
\* that carries the token: the report names "x" for the text "x" and "xy" for
\* the text "1,xy".
C20_FormatErrorCarriesToken ==
    parse_result # NotParsed =>
        /\ parse_text = <<"x">>
               => parse_result.err = "format" /\ parse_result.names = <<"x">>
        /\ parse_text = <<"1", ",", "x", "y">>
               => parse_result.err = "format" /\ parse_result.names = <<"x", "y">>

\* C21: a crop released less than 10 thumbnail pixels from where it began,
\* in width or in height, is rejected: no crop is stored and the crop id
\* counter does not advance; one of exactly 10 pixels is not too small.
C21_SmallCropRejected ==
    [][(current_crop # NoCrop /\ current_crop' = NoCrop)
       => LET width == lastOp'.x - current_crop.start_x
              height == lastOp'.y - current_crop.start_y
              small == \/ (width < 10 /\ width > -10)
                       \/ (height < 10 /\ height > -10)
          IN  /\ small => /\ crop_rectangles' = crop_rectangles
                          /\ crop_counter' = crop_counter
                          /\ current_crop' = NoCrop
              /\ lastOp'.res = "too small" <=> small]_vars

\* C21: a drag of 5 by 200 pixels has been rejected
C21_Witness ==
    /\ lastOp.op = "end_crop"
    /\ lastOp.res = "too small"
    /\ lastOp.sx = 0
    /\ lastOp.x = 5
    /\ lastOp.sy = 0
    /\ lastOp.y = 200
    /\ crop_rectangles = EmptyDict
    /\ crop_counter = 0
    /\ current_crop = NoCrop

\* the handlers that mutate the order or the deleted pages
MutationOps == {"delete_page", "bulk_delete_pages", "reorder_pages",
                "reset_edit_session"}

\* C24: after every mutation (delete, bulk delete, reorder, reset) the order
\* holds no page twice and no page is both in the order and deleted.
C24_OrderWellFormed ==
    [][lastOp'.op \in MutationOps
       => /\ \A i \in 1..Len(page_order'), j \in 1..Len(page_order') :
                 page_order'[i] = page_order'[j] => i = j
          /\ \A i \in 1..Len(page_order') : page_order'[i] \notin deleted_pages']_vars

\* C24: the second of three pages has been deleted and the last page then
\* dragged to the front
C24_Witness ==
    /\ lastOp.op = "reorder_pages"
    /\ lastOp.res = "ok"
    /\ lastOp.src = 1
    /\ lastOp.tgt = 0
    /\ deleted_pages = {1}
    /\ page_order = <<2, 0>>

\* C26: a reorder (0-based source s and target t inside the order, s # t)
\* removes the page at the source and puts it back at the target, lowered by
\* one when the target is after the source; the other pages keep their
\* relative order, the order holds the same pages, and the deleted pages and
\* the rotations are unchanged.
C26_ReorderFrame ==
    [][(EditStep /\ lastOp'.op = "reorder_pages" /\ lastOp'.res = "ok")
       => LET s == lastOp'.src
              t == lastOp'.tgt
              moved == page_order[s + 1]
              final == IF t > s THEN t - 1 ELSE t
          IN  /\ Len(page_order') = Len(page_order)
              /\ page_order'[final + 1] = moved
              /\ {page_order'[i] : i \in 1..Len(page_order')} =
                     {page_order[i] : i \in 1..Len(page_order)}
              /\ \A i \in 1..Len(page_order), j \in 1..Len(page_order) :
                     (i < j /\ page_order[i] # moved /\ page_order[j] # moved)
                     => \E k \in 1..Len(page_order'), l \in 1..Len(page_order') :
                            /\ k < l
                            /\ page_order'[k] = page_order[i]
                            /\ page_order'[l] = page_order[j]
              /\ UNCHANGED <<deleted_pages, page_rotations>>]_vars

\* C26: in a session that tracks a rotation of page 1, the last of three
\* pages has been dragged to the front
C26_Witness ==
    /\ lastOp.op = "reorder_pages"
    /\ lastOp.res = "ok"
    /\ lastOp.src = 2
    /\ lastOp.tgt = 0
    /\ page_order = <<2, 0, 1>>
    /\ deleted_pages = {}
    /\ page_rotations = (1 :> 90)

\* C27: a delete at a display position inside the order (0-based pos) removes
\* exactly the page at that position from the order and adds it to the
\* deleted pages; the pages before it stay where they are, those after it
\* move up by one, and the rotations are unchanged.
C27_DeleteAtPosition ==
    [][(EditStep /\ lastOp'.op = "delete_page" /\ lastOp'.pos < Len(page_order))
       => LET pos == lastOp'.pos
          IN  /\ lastOp'.res = "ok"
              /\ deleted_pages' = deleted_pages \cup {page_order[pos + 1]}
              /\ Len(page_order') = Len(page_order) - 1
              /\ \A i \in 1..Len(page_order') :
                     page_order'[i] = page_order[IF i <= pos THEN i ELSE i + 1]
              /\ page_rotations' = page_rotations]_vars

\* C27: the second of three pages, which has a tracked rotation, has been
\* deleted
C27_Witness ==
    /\ lastOp.op = "delete_page"
    /\ lastOp.res = "ok"
    /\ lastOp.pos = 1
    /\ page_order = <<0, 2>>
    /\ deleted_pages = {1}
    /\ page_rotations = (2 :> 90)

\* C28: in every reachable state every stored rotation angle, tracked or in
\* the snapshot, is 90, 180 or 270: an angle of 0 is never stored.
C28_StoredAngles ==
    /\ \A k \in DOMAIN page_rotations : page_rotations[k] \in {90, 180, 270}
    /\ \A k \in DOMAIN original_rotations : original_rotations[k] \in {90, 180, 270}

\* C28: page 2 has been rotated back to 0 by a turn of +90 (from 270) and no
\* entry is left for it
C28_Witness ==
    /\ lastOp.op = "rotate_page"
    /\ lastOp.page = 2
    /\ lastOp.angle = 90
    /\ edits_left = SessionMaxEdits - 2
    /\ page_rotations = EmptyDict

\* C29: a rotation of a page by -90 or +90 sets its angle to (current + delta)
\* mod 360, an angle of 0 being the absence of an entry, and changes nothing
\* else: the angles of the other pages, the order, the deleted pages, the
\* snapshots and the edited flag are as before.
C29_RotateFrame ==
    [][(EditStep /\ lastOp'.op = "rotate_page")
       => LET id == lastOp'.page
              delta == lastOp'.angle
              current == IF id \in DOMAIN page_rotations THEN page_rotations[id] ELSE 0
              expected == (current + delta + 360) % 360
          IN  /\ delta \in {-90, 90}
              /\ IF expected = 0
                 THEN id \notin DOMAIN page_rotations'
                 ELSE id \in DOMAIN page_rotations' /\ page_rotations'[id] = expected
              /\ DOMAIN page_rotations' \ {id} = DOMAIN page_rotations \ {id}
              /\ \A k \in DOMAIN page_rotations \ {id} :
                     page_rotations'[k] = page_rotations[k]
              /\ UNCHANGED <<page_order, deleted_pages, original_order,
                             original_rotations, has_edited>>]_vars

\* C29: page 1 has been turned by +90 while page 2 is tracked at 270
C29_Witness ==
    /\ lastOp.op = "rotate_page"
    /\ lastOp.page = 1
    /\ lastOp.angle = 90
    /\ page_rotations = (1 :> 90) @@ (2 :> 270)
    /\ page_order = <<0, 1, 2>>
    /\ ~has_edited

\* a step that opens a document: Open PDF, Open Folder, navigation, or the
\* load of a merge result
OpenStep ==
    \/ /\ loads_left' # loads_left
       /\ lastOp'.op \in {"load_pdf", "load_pdf_folder", "next_pdf", "previous_pdf"}
    \/ /\ MergeStep
       /\ lastOp'.op = "perform_merge"

\* the session of a document of n pages as it is created
FreshSession(n) ==
    /\ page_order' = [i \in 1..n |-> i - 1]
    /\ deleted_pages' = {}
    /\ page_rotations' = EmptyDict
    /\ original_order' = [i \in 1..n |-> i - 1]
    /\ original_rotations' = EmptyDict
    /\ ~has_edited'
    /\ ~HasChanges'

\* C30: a step that opens a document of N >= 1 pages gives the session
\* order = [0..N-1], nothing deleted, no rotation, the snapshot order equal to
\* the order, no snapshot rotation, and the state Clean.
C30_OpenCreatesSession ==
    [][(OpenStep /\ lastOp'.res = "ok")
       => /\ pdf_document'.st = "open"
          /\ Len(pdf_document'.pages) >= 1
          /\ FreshSession(Len(pdf_document'.pages))]_vars

\* C30: the two-page B has been opened after edits of A were applied
C30_Witness ==
    /\ lastOp.op = "load_pdf"
    /\ lastOp.res = "ok"
    /\ lastOp.path = PathB
    /\ PathA \in DOMAIN pdf_modifications
    /\ pdf_document = OpenDoc(SourceFiles[PathB])
    /\ page_order = <<0, 1>>
    /\ original_order = <<0, 1>>
    /\ deleted_pages = {}
    /\ page_rotations = EmptyDict
    /\ original_rotations = EmptyDict
    /\ ~has_edited

\* C22: once the passes have finished (no thread is alive), every thumbnail
\* held is the rendering of the page the current document has at that index:
\* nothing written by a pass that was overtaken by a newer one is left.
C22_StalePassDiscarded ==
    passes = <<>>
    => \A k \in 1..Len(page_thumbnails) :
           page_thumbnails[k] # NoPhoto
           => /\ k <= Len(pdf_document.pages)
              /\ page_thumbnails[k].page = pdf_document.pages[k]

\* a step of a background thread: a thread advances or ends (the handlers
\* only start threads)
PassStep == passes' # passes /\ Len(passes') <= Len(passes)

\* C23: a step of a background pass leaves the order, the deleted pages, the
\* rotations, the two snapshots and the edited flag as they are.
C23_PassOnlyReads ==
    [][PassStep
       => UNCHANGED <<page_order, deleted_pages, page_rotations, original_order,
                      original_rotations, has_edited>>]_vars

\* C23: while a pass is running page 1 was rotated, and the pass has then
\* rendered it with the new rotation and is about to store it
C23_Witness ==
    /\ lastOp.op = "rotate_page"
    /\ page_rotations = (1 :> 90)
    /\ \E i \in 1..Len(passes) :
           /\ passes[i].kind = "full"
           /\ passes[i].pc = "store"
           /\ passes[i].page_num = 0
           /\ passes[i].photo.rot = 90

\* C25: after every mutation that succeeds (delete, bulk delete, reorder,
\* reset) every page control on display carries a position inside the order
\* (the one its delete button and its drag binding pass), the page at that
\* position is the page the control shows, and so is the page at the index a
\* drop on the control gives (its index among the controls).
C25_ControlsFollowOrder ==
    [][(lastOp'.op \in MutationOps /\ lastOp'.res = "ok" /\ lastOp' # lastOp)
       => \A w \in 1..Len(page_widgets') :
              /\ page_widgets'[w].display_position < Len(page_order')
              /\ page_order'[page_widgets'[w].display_position + 1] =
                     page_widgets'[w].page_index
              /\ w <= Len(page_order')
              /\ page_order'[w] = page_widgets'[w].page_index]_vars

\* the handlers that edit the session: delete, bulk delete, reorder, rotate
EditOps == {"delete_page", "bulk_delete_pages", "reorder_pages", "rotate_page"}

ApplyCallStep == applies_left' # applies_left

\* C32: an apply in a session without changes (nothing marked as edited,
\* nothing deleted, no rotation tracked) writes no file and leaves the live
\* document, the cache, the order, the deleted pages, the rotations, the two
\* snapshots and the modification records as they are.
C32_CleanApplyDoesNothing ==
    [][(/\ ApplyCallStep
        /\ ~has_edited
        /\ deleted_pages = {}
        /\ page_rotations = EmptyDict)
       => /\ lastOp'.res = "no changes"
          /\ UNCHANGED <<files, tmp_count, pdf_document, pdf_documents, page_order,
                         deleted_pages, page_rotations, original_order,
                         original_rotations, has_edited, pdf_modifications>>]_vars

\* C32: apply has been called in a session without changes over the result
\* of an earlier apply
C32_Witness ==
    /\ lastOp.op = "apply_edit_changes_to_pdf"
    /\ lastOp.res = "no changes"
    /\ applies_left = 0
    /\ PathA \in DOMAIN pdf_modifications
    /\ Len(pdf_document.pages) = 2
    /\ page_order = <<0, 1>>
    /\ ~HasChanges

\* the paths that are recorded or in use before a step: the files that
\* exist, the path of the live document, the merged file and the
\* materialized paths of the modification records
KnownPaths ==
    DOMAIN files \cup {pdf_path, merged_temp_path}
        \cup {pdf_modifications[p].temp_path : p \in DOMAIN pdf_modifications}

\* C34: the file written by an apply or by a merge that succeeds has a path
\* that is new: no file exists at it (a source file, an input of the merge,
\* an earlier materialized document) and no record holds it, also when two
\* merges are made within the same second.
C34_MaterializedPathFresh ==
    [][/\ (ApplyStep /\ lastOp'.res = "ok") => lastOp'.temp \notin KnownPaths
       /\ (MergeStep /\ lastOp'.res = "ok") => merged_temp_path' \notin KnownPaths]_vars

\* a run of save_edited_pdf or save_merged_pdf
SaveStep ==
    /\ lastOp' # lastOp
    /\ lastOp'.op \in {"save_edited_pdf", "save_merged_pdf"}

\* C33: a build that reports success has emitted one page for every page of
\* the order: the document written by an apply and the file written by a
\* save have len(order) pages, whatever the source can supply; when the
\* source lacks a page the build ends with an error.
C33_BuildNeverDropsPages ==
    [][/\ (ApplyStep /\ lastOp'.res = "ok")
            => Len(pdf_document'.pages) = Len(ListWithout(page_order, deleted_pages))
       /\ (SaveStep /\ lastOp'.res = "ok")
            => Len(lastOp'.out) = Len(ListWithout(page_order, deleted_pages))]_vars

\* C35: in every reachable state crop mode and edit mode are not both
\* active, whatever mode switches, merges and answers to the "Exit Edit
\* Mode" dialog came before.
C35_OneModeActive == ~(crop_mode /\ edit_mode)

\* C36: a reset gives the session the content of the snapshots and not the
\* snapshot objects: the reset itself and every delete, reorder and rotation,
\* those made after a reset among them, leave the snapshot order and the
\* snapshot rotations as they are; every reset gives order = snapshot order,
\* nothing deleted and rotations = snapshot rotations, so a second reset
\* restores what the first restored, and a reset made right after a reset
\* changes nothing.
C36_ResetKeepsSnapshot ==
    [][/\ EditStep => UNCHANGED <<original_order, original_rotations>>
       /\ lastOp'.op = "reset_edit_session"
            => /\ UNCHANGED <<original_order, original_rotations>>
               /\ page_order' = original_order
               /\ deleted_pages' = {}
               /\ page_rotations' = original_rotations
               /\ ~aliased'.order
               /\ ~aliased'.rotations
               /\ lastOp.op = "reset_edit_session"
                    => UNCHANGED <<page_order, deleted_pages, page_rotations,
                                   has_edited>>]_vars

\* the rotation made by the user for a 0-based page identity since the session
\* was created (by a load or by the last apply): what is tracked less what
\* the snapshot holds
RotationSinceSnapshot(identity) ==
    (DictGet(page_rotations, identity + 1, 0)
         - DictGet(original_rotations, identity + 1, 0) + 360) % 360

\* C37: an apply on a path that has been applied before builds from the
\* document the earlier apply left: its output has one page for every page of
\* the order, page k being the page of the live document with identity
\* order[k], turned by the rotation made since the earlier apply and by
\* nothing else, so that each rotation is in the final document once.
C37_SuccessiveAppliesCompose ==
    [][(ApplyStep /\ lastOp'.res = "ok" /\ pdf_path \in DOMAIN pdf_modifications)
       => LET visible == ListWithout(page_order, deleted_pages)
          IN  /\ Len(pdf_document'.pages) = Len(visible)
              /\ \A k \in 1..Len(visible) :
                     k <= Len(pdf_document'.pages)
                     => pdf_document'.pages[k] =
                            RotatePage(pdf_document.pages[visible[k] + 1],
                                       RotationSinceSnapshot(visible[k]))]_vars

\* the set of identities the session holds: order together with deleted
SessionIdentities == {page_order[i] : i \in 1..Len(page_order)} \cup deleted_pages

\* C38: whenever a document is live (its handle is open), order together with
\* deleted is exactly the set of page indices 0..pageCount-1 of that document,
\* also after a load that was rejected as empty or that failed part-way
C38_SessionCoversLiveDocument ==
    pdf_document.st = "open"
    => SessionIdentities = 0..(Len(pdf_document.pages) - 1)

\* a step of rotate_page(page_number, angle)
RotateStep(page_number, angle) ==
    /\ EditStep
    /\ lastOp'.op = "rotate_page"
    /\ lastOp'.page = page_number
    /\ lastOp'.angle = angle

\* C39: for any page, rotate(id,+90) followed by rotate(id,-90) restores the
\* rotation map exactly to what it was before the first of the two, and so do
\* four successive rotate(id,+90); an entry that was absent is absent again.
\* Every rotate step leaves the map rotate_page computes; after a step
\* rotate(id,+90) the map rotate(id,-90) leaves is the map before the step, and
\* so is the map three more rotate(id,+90) leave.
C39_RotateRoundTrips ==
    [][\A page_number \in 1..MaxPages :
          /\ \A angle \in {-90, 90} :
                 RotateStep(page_number, angle)
                 => page_rotations' = RotatedMap(page_rotations, page_number, angle)
          /\ RotateStep(page_number, 90)
             => /\ RotatedMap(page_rotations', page_number, -90) = page_rotations
                /\ RotatedMap(RotatedMap(RotatedMap(page_rotations', page_number, 90),
                                         page_number, 90),
                              page_number, 90) = page_rotations]_vars

\* four rotate buttons were pressed, the last one rotate(1,+90), and the map,
\* which was empty when the document was loaded, is empty again
C39_Witness ==
    /\ edits_left = 0
    /\ lastOp.op = "rotate_page"
    /\ lastOp.page = 1
    /\ lastOp.angle = 90
    /\ page_rotations = EmptyDict
    /\ original_rotations = EmptyDict

====
